---- MODULE Spec2Model ----
(***************************************************************************)
(* Model of the orphea-api conversational core: the diagnostic interview   *)
(* endpoint (src/unnamed/part_006, src/api/diagnostic/start.ts) and the    *)
(* team chat endpoint with its persona router (src/api/team/chat.ts,       *)
(* src/lib/team-prompts.ts).                                               *)
(*                                                                         *)
(* Texts are sequences of one-character strings, so that substring search, *)
(* regular-expression replacement and trimming are computed as the code    *)
(* computes them.  An optional value (a JavaScript undefined / null, a     *)
(* missing Redis key) is a sequence of length 0 or 1.  An object whose     *)
(* fields may be undefined is a record whose domain holds only the fields  *)
(* that are defined, which is also what JSON serialisation keeps.          *)
(***************************************************************************)
EXTENDS Integers, Sequences, FiniteSets, TLC

VARIABLES
  hasKey,      \* ANTHROPIC_API_KEY is set: getAnthropic() returns a client
  hasRedis,    \* UPSTASH_REDIS_REST_URL/TOKEN are set: getRedis() returns a client
  budget,      \* number of chat requests the run may issue (model bound, fixed by Init)
  handlers,    \* the handler instances the platform runs (fixed by Init)
  nreq,        \* number of chat requests issued so far
  faults,      \* number of failures injected so far (thrown errors, replies without text)
  issued,      \* the diagnostic session id has been returned by /diagnostic/start
  diagStore,   \* Redis key diagnostic:<sessionId> : <<>> or <<ConversationState>>
  teamStore,   \* Redis key team:<sessionId>       : <<>> or <<TeamConversationState>>
  diagVer,     \* ghost: number of writes of the diagnostic key
  teamVer,     \* ghost: number of writes of the team key
  diagTtl,     \* expiry of the diagnostic key: <<>> (none) or <<seconds>> as last set
  teamTtl,     \* expiry of the team key: <<>> (none) or <<seconds>> as last set
  pc,          \* per handler instance: the await it is suspended at
  req,         \* per handler instance: the parsed request (and ghost read/write versions)
  loc,         \* per handler instance: the local variable state : <<>> or <<state>>
  resp,        \* per handler instance: the HTTP response sent : <<>> or <<response>>
  claudeCalls, \* ghost: invocations of the interview/team callClaude
  scoreCalls,  \* ghost: invocations of calculateScores
  routeCalls,  \* ghost: invocations of client.messages.create made by routeByLLM
  route,       \* router harness: <<>> or the last routing decision taken
  redirect,    \* redirect harness: <<>> or the last decision of shouldRedirect
  sanitized,   \* sanitizer harness: <<>> or the last input and output of sanitizeInput
  acked,       \* ghost: the user turns written by saveConversation and answered with 200
  anthropic,   \* the module variable anthropic: <<>> (null) or <<client>>
  constructed, \* ghost: number of new Anthropic(...) evaluated; names the client built
  got,         \* per caller: <<>> or the value its getAnthropic() call returned
  pdfs,        \* ghost: the report requests for which generatePDF was called
  emails       \* ghost: the report requests for which sendReportEmail was called

vars == << hasKey, hasRedis, budget, handlers, nreq, faults, issued, diagStore, teamStore, diagVer,
           teamVer, diagTtl, teamTtl, pc, req, loc, resp, claudeCalls, scoreCalls, routeCalls,
           route, redirect, sanitized, acked, anthropic, constructed, got, pdfs,
           emails >>

(***************************************************************************)
(* Bounds of the model.                                                    *)
(***************************************************************************)
MaxRequests == 8
MaxRaceRequests == 3
MaxFaults == 1
MaxLostRequests == 5
MaxRouteRequests == 2
MaxTeamRequests == 3
MaxValidateRequests == 3
MaxSanitizeCalls == 3
MaxClientCalls == 6
MaxReportRequests == 3
Workers == {"h1", "h2"}

\* the ex option of every redis.set of a session key, in seconds
SessionExpiry == 86400

(***************************************************************************)
(* Texts.                                                                  *)
(***************************************************************************)
UpperChars == <<"A","B","C","D","E","F","G","H","I","J","K","L","M","N","O","P","Q","R",
                "S","T","U","V","W","X","Y","Z","É","È","À","Ç","Ô","Ê">>
LowerChars == <<"a","b","c","d","e","f","g","h","i","j","k","l","m","n","o","p","q","r",
                "s","t","u","v","w","x","y","z","é","è","à","ç","ô","ê">>

ToLowerChar(c) ==
  IF \E i \in 1..Len(UpperChars) : UpperChars[i] = c
  THEN LowerChars[CHOOSE i \in 1..Len(UpperChars) : UpperChars[i] = c]
  ELSE c

\* String.prototype.toLowerCase
toLowerCase(s) == [i \in 1..Len(s) |-> ToLowerChar(s[i])]

\* p occurs in s at position i (case-sensitive)
MatchAt(s, p, i) ==
  /\ i >= 1
  /\ i + Len(p) - 1 <= Len(s)
  /\ \A k \in 1..Len(p) : s[i + k - 1] = p[k]

\* p occurs in s at position i, ignoring case (the /i flag)
MatchAtCI(s, p, i) == MatchAt(toLowerCase(s), toLowerCase(p), i)

\* String.prototype.includes
includes(s, p) == \E i \in 1..(Len(s) - Len(p) + 1) : MatchAt(s, p, i)

WhiteSpace == {" ", "\n", "\t", "\r"}

RECURSIVE TrimStart(_)
TrimStart(s) ==
  IF s # <<>> /\ Head(s) \in WhiteSpace THEN TrimStart(Tail(s)) ELSE s

RECURSIVE TrimEnd(_)
TrimEnd(s) ==
  IF s # <<>> /\ s[Len(s)] \in WhiteSpace THEN TrimEnd(SubSeq(s, 1, Len(s) - 1)) ELSE s

\* String.prototype.trim
trim(s) == TrimEnd(TrimStart(s))

\* s.replace(/p/gi, ''): every non-overlapping occurrence, scanning left to right
RECURSIVE ReplaceAllCI(_, _)
ReplaceAllCI(s, p) ==
  IF s = <<>> THEN <<>>
  ELSE IF MatchAtCI(s, p, 1) THEN ReplaceAllCI(SubSeq(s, Len(p) + 1, Len(s)), p)
  ELSE <<Head(s)>> \o ReplaceAllCI(Tail(s), p)

\* s.replace(/p/g, ''): as above, case-sensitive
RECURSIVE ReplaceAll(_, _)
ReplaceAll(s, p) ==
  IF s = <<>> THEN <<>>
  ELSE IF MatchAt(s, p, 1) THEN ReplaceAll(SubSeq(s, Len(p) + 1, Len(s)), p)
  ELSE <<Head(s)>> \o ReplaceAll(Tail(s), p)

\* s.replace(p, '') with a string pattern: the first occurrence only
RECURSIVE ReplaceFirst(_, _)
ReplaceFirst(s, p) ==
  IF s = <<>> THEN <<>>
  ELSE IF MatchAt(s, p, 1) THEN SubSeq(s, Len(p) + 1, Len(s))
  ELSE <<Head(s)>> \o ReplaceFirst(Tail(s), p)

LineTerminators == {"\n", "\r"}

\* the positions j at which the lazy marker pattern (less-than, bar, any characters,
\* bar, greater-than) started at position 1 can end:
\* "|>" at j, j+1 with no line terminator in between
MarkerEnds(s) ==
  { j \in 3..(Len(s) - 1) :
      /\ s[j] = "|" /\ s[j + 1] = ">"
      /\ \A k \in 3..(j - 1) : s[k] \notin LineTerminators }

Min(S) == CHOOSE x \in S : \A y \in S : x <= y

\* s.replace(marker pattern, '') with the g flag
RECURSIVE ReplaceMarkers(_)
ReplaceMarkers(s) ==
  IF s = <<>> THEN <<>>
  ELSE IF MatchAt(s, <<"<", "|">>, 1) /\ MarkerEnds(s) # {}
       THEN ReplaceMarkers(SubSeq(s, Min(MarkerEnds(s)) + 2, Len(s)))
  ELSE <<Head(s)>> \o ReplaceMarkers(Tail(s))

SYSTEM_MARK == <<"[","S","Y","S","T","E","M","]">>
ASSISTANT_MARK == <<"[","A","S","S","I","S","T","A","N","T","]">>
SENTINEL == <<"[","D","I","A","G","N","O","S","T","I","C","_","C","O","M","P","L","E","T","E","]">>
\* the grave accent cannot be written in a TLA+ string: it is the atom BACKTICK
BACKTICK == "grave"
FENCE == <<BACKTICK, BACKTICK, BACKTICK>>

\* sanitizeInput of the interview endpoint
sanitizeInputDiag(input) ==
  trim(ReplaceAll(ReplaceMarkers(ReplaceAllCI(ReplaceAllCI(ReplaceAllCI(
         input, SYSTEM_MARK), ASSISTANT_MARK), SENTINEL)), FENCE))

\* sanitizeInput of the team chat endpoint
sanitizeInputTeam(input) ==
  trim(ReplaceMarkers(ReplaceAllCI(ReplaceAllCI(input, SYSTEM_MARK), ASSISTANT_MARK)))

(***************************************************************************)
(* Optional values and objects with optional fields.                       *)
(***************************************************************************)
None == <<>>
Some(x) == <<x>>

Has(o, k) == k \in DOMAIN o

SetField(o, k, v) == [x \in (DOMAIN o) \cup {k} |-> IF x = k THEN v ELSE o[x]]

(***************************************************************************)
(* The diagnostic interview: data (src/unnamed/part_006).                  *)
(* Long literal texts are abbreviated to their first words.                *)
(***************************************************************************)
Dimensions == {"vision", "competences", "gouvernance", "processus", "data", "outils"}

ResultFields == {"scores", "grade", "summary", "recommendations", "pack"}

FALLBACK_REPLY == <<"U","n","e"," ","e","r","r","e","u","r"," ","e","s","t"," ","s","u","r","v","e","n","u","e","."," ","P","o","u","v","e","z","-","v","o","u","s"," ","r","e","f","o","r","m","u","l","e","r"," ","?">>
VISITEUR == <<"V","i","s","i","t","e","u","r">>
DEJA_TERMINE == <<"L","e"," ","d","i","a","g","n","o","s","t","i","c"," ","e","s","t"," ","d","é","j","à"," ","t","e","r","m","i","n","é",".">>

\* the greeting built by /diagnostic/start and by initConversation
Greeting(firstName) == <<"B","o","n","j","o","u","r"," ">> \o firstName \o <<" ","!">>

\* mockResponses of callClaude; the last one carries the completion sentinel
mockResponses(firstName) ==
  << <<"M","e","r","c","i"," ","p","o","u","r"," ","c","e","t","t","e"," ","i","n","f","o","r","m","a","t","i","o","n"," ","!">>,
     <<"I","n","t","é","r","e","s","s","a","n","t",".">>,
     <<"J","e"," ","v","o","i","s",".">>,
     <<"P","a","r","f","a","i","t",".">>,
     <<"C","o","m","p","r","i","s",".">>,
     <<"D","e","r","n","i","è","r","e"," ","q","u","e","s","t","i","o","n">>,
     <<"M","e","r","c","i"," ">> \o firstName \o <<" ","!","\n","\n">> \o SENTINEL >>

\* rid is a ghost field: the request that appended the message
UserMsg(content, rid) == [role |-> "user", content |-> content, rid |-> rid]
AssistantMsg(content) == [role |-> "assistant", content |-> content]

CountRole(messages, r) == Cardinality({i \in 1..Len(messages) : messages[i].role = r})

\* the mock development scores of calculateScores
MockScores ==
  [scores |-> [vision |-> 45, competences |-> 35, gouvernance |-> 25,
               processus |-> 55, data |-> 40, outils |-> 50],
   grade |-> "C",
   summary |-> "experimentation",
   recommendations |-> <<"politique", "pilotes", "former">>,
   pack |-> "Pack 1"]

\* the fixed neutral fallback of calculateScores
FallbackScores ==
  [scores |-> [d \in Dimensions |-> 50],
   grade |-> "C",
   summary |-> "Analyse en cours.",
   recommendations |-> <<"Contactez-nous">>,
   pack |-> "Pack 1"]

(***************************************************************************)
(* A scoring reply is a sequence of lexical chunks: prose, an opening or   *)
(* closing brace, a well-formed "key": value member, or a malformed chunk. *)
(***************************************************************************)
Prose == [t |-> "prose"]
LBrace == [t |-> "lbrace"]
RBrace == [t |-> "rbrace"]
Junk == [t |-> "junk"]
Member(k, v) == [t |-> "member", k |-> k, v |-> v]

IsTok(text, i, kind) == text[i].t = kind

\* text.match(/\{[\s\S]*\}/): from the first opening brace that has a closing
\* brace after it to the last closing brace (greedy); None when there is none
jsonMatch(text) ==
  LET opens == {i \in 1..Len(text) : IsTok(text, i, "lbrace")}
      closes == {j \in 1..Len(text) : IsTok(text, j, "rbrace")}
      pairs == {i \in opens : \E j \in closes : i < j}
  IN IF pairs = {} THEN None
     ELSE Some(SubSeq(text, Min(pairs), CHOOSE j \in closes : \A k \in closes : k <= j))

\* JSON.parse of a matched region: an object when the region is one pair of
\* braces around members only; None stands for the SyntaxError it throws
JSONparse(region) ==
  LET inner == 2..(Len(region) - 1)
      keys == {region[i].k : i \in {j \in inner : IsTok(region, j, "member")}}
      last(k) == CHOOSE i \in inner :
                    /\ IsTok(region, i, "member") /\ region[i].k = k
                    /\ \A j \in inner : (IsTok(region, j, "member") /\ region[j].k = k) => j <= i
  IN IF \A i \in inner : IsTok(region, i, "member")
     THEN Some([k \in keys |-> region[last(k)].v])
     ELSE None

\* the part of calculateScores after the completion call returned: reply is
\* None when the response has no text block, else Some(text)
ParseScores(reply) ==
  LET text == IF reply = None THEN <<LBrace, RBrace>> ELSE reply[1]
      m == jsonMatch(text)
      parsed == IF m = None THEN None ELSE JSONparse(m[1])
  IN IF parsed # None
     THEN [k \in ResultFields \cap DOMAIN parsed[1] |-> parsed[1][k]]
     ELSE FallbackScores

\* state.scores = scoringResult.scores, ... : an undefined value leaves the
\* field undefined
AssignResult(state, result) ==
  [x \in ((DOMAIN state) \ ResultFields) \cup (DOMAIN result) |->
     IF x \in DOMAIN result THEN result[x] ELSE state[x]]

(***************************************************************************)
(* Inputs and completion-service replies the model draws from.             *)
(***************************************************************************)
\* request bodies' message for the interview endpoint
DiagInputs == { <<"4","5",","," ","[","S","y","s","t","e","m","]"," ","D","G">> }

\* texts the completion service returns for an interview turn: a question, the
\* closing turn with the sentinel on a new line, a reply with two sentinels
InterviewReplies ==
  { <<"Q"," ","?">>,
    <<"F","i","n","\n">> \o SENTINEL,
    SENTINEL \o <<" ","x"," ">> \o SENTINEL }

\* input.message after the schema's trim transform and sanitizeInput
SanitizedDiag == [text \in DiagInputs |-> sanitizeInputDiag(trim(text))]

FullScores(v) == [d \in Dimensions |-> v]

FullMembers(v, g, p) ==
  << Member("scores", FullScores(v)), Member("grade", g), Member("summary", "profil"),
     Member("recommendations", <<"r1", "r2", "r3">>), Member("pack", p) >>

\* replies of the scoring call: None is a response without a text block
ScoringReplies ==
  << Some(<<Prose, LBrace>> \o FullMembers(80, "A", "Pack 3") \o <<RBrace, Prose>>),
     None,
     Some(<<Prose>>),
     Some(<<LBrace, Junk, RBrace>>),
     Some(<<LBrace, Member("grade", "B"), Member("pack", "Pack 2"), RBrace>>),
     Some(<<LBrace>> \o FullMembers(30, "D", "Pack 1") \o <<RBrace, Prose, LBrace, RBrace>>),
     Some(<<LBrace>> \o FullMembers(120, "E", "Pack 3") \o <<RBrace>>),
     Some(<<LBrace>> \o FullMembers(79, "A", "Pack 3") \o <<RBrace>>) >>

(***************************************************************************)
(* The diagnostic interview: handlers.                                     *)
(***************************************************************************)
\* a parsed request; target, auto, isNew and changed are the handler's locals
\* targetAgent, wasAutoRouted, (state was absent) and agentChanged; sendEmail is
\* the field of the report request; rid, readVer and savedVer are ghost fields
NoReq == [kind |-> "none", rid |-> 0, message |-> <<>>, agent |-> "none",
          returning |-> FALSE, target |-> "none", auto |-> FALSE, isNew |-> FALSE,
          changed |-> FALSE, readVer |-> 0, savedVer |-> 0, sendEmail |-> FALSE]

teamVars == << teamStore, teamVer, teamTtl >>
routerVars == << routeCalls, route, redirect, sanitized >>
\* the lazily built client and the harness that calls getAnthropic directly; the
\* handler steps read the client through hasKey and leave these unchanged
clientVars == << anthropic, constructed, got >>
\* the bookkeeping of the report endpoint, left unchanged by the chat handlers
reportVars == << pdfs, emails >>
cfgVars == << hasKey, hasRedis, budget, handlers, clientVars, reportVars >>
envVars == << cfgVars, acked >>

\* the catch block of a handler: 500 INTERNAL_ERROR with the error message
Fail(w, details) ==
  /\ resp' = [resp EXCEPT ![w] = Some([status |-> 500, details |-> details])]
  /\ pc' = [pc EXCEPT ![w] = "done"]

\* conversationState of /diagnostic/start
StartState(firstName) ==
  [firstName |-> firstName, email |-> "ana@example.com", sector |-> "Technologies",
   messages |-> <<AssistantMsg(Greeting(firstName))>>,
   questionCount |-> 1, isComplete |-> FALSE]

\* state built by initConversation of the chat endpoint
initConversationDiag(firstName) ==
  [firstName |-> firstName,
   messages |-> <<AssistantMsg(Greeting(firstName))>>,
   questionCount |-> 1, isComplete |-> FALSE]

\* POST /diagnostic/start: the honeypot branch returns a session id and stores
\* nothing; otherwise the initial state is written when Redis is configured
DiagStart(honeypot) ==
  /\ ~issued
  /\ \/ /\ honeypot \/ ~hasRedis
        /\ issued' = TRUE
        /\ UNCHANGED << diagStore, diagVer, diagTtl, faults >>
     \/ /\ ~honeypot /\ hasRedis
        /\ issued' = TRUE
        /\ diagStore' = Some(StartState(<<"A","n","a">>))
        /\ diagVer' = diagVer + 1
        /\ diagTtl' = Some(SessionExpiry)
        /\ UNCHANGED faults
     \/ /\ ~honeypot /\ hasRedis /\ faults < MaxFaults
        /\ faults' = faults + 1
        /\ UNCHANGED << issued, diagStore, diagVer, diagTtl >>
  /\ UNCHANGED << envVars, nreq, teamVars, pc, req, loc, resp, claudeCalls, scoreCalls,
                  routerVars >>

\* chatSchema.parse and sanitizeInput of a valid request body
ChatReceive(w) ==
  /\ w \in handlers
  /\ pc[w] \in {"idle", "done"}
  /\ issued
  /\ nreq < budget
  /\ \E text \in DiagInputs :
       req' = [req EXCEPT ![w] = [NoReq EXCEPT !.kind = "diag", !.rid = nreq + 1,
                                        !.message = SanitizedDiag[text]]]
  /\ nreq' = nreq + 1
  /\ pc' = [pc EXCEPT ![w] = "d_get"]
  /\ loc' = [loc EXCEPT ![w] = None]
  /\ resp' = [resp EXCEPT ![w] = None]
  /\ UNCHANGED << envVars, issued, diagStore, diagVer, diagTtl, teamVars, faults, claudeCalls,
                  scoreCalls, routerVars >>

\* the response of the re-entry guard
CachedResponse(state) ==
  [x \in {"status", "message", "isComplete"} \cup (ResultFields \cap DOMAIN state) |->
     CASE x = "status" -> 200
       [] x = "message" -> DEJA_TERMINE
       [] x = "isComplete" -> TRUE
       [] OTHER -> state[x]]

\* a turn response that reports the isComplete read at the re-entry guard
\* (false) and spreads whatever result fields the state holds
TurnResponseEarlyFlag(state) ==
  [x \in {"status", "message", "questionCount", "isComplete"}
         \cup (ResultFields \cap DOMAIN state) |->
     CASE x = "status" -> 200
       [] x = "message" -> state.messages[Len(state.messages)].content
       [] x = "questionCount" -> state.questionCount
       [] x = "isComplete" -> FALSE
       [] OTHER -> state[x]]

\* the response after a turn
TurnResponse(state) ==
  [x \in {"status", "message", "questionCount", "isComplete"}
         \cup (IF state.isComplete THEN ResultFields \cap DOMAIN state ELSE {}) |->
     CASE x = "status" -> 200
       [] x = "message" -> state.messages[Len(state.messages)].content
       [] x = "questionCount" -> state.questionCount
       [] x = "isComplete" -> state.isComplete
       [] OTHER -> state[x]]

\* a push that keeps only the last four messages of the history
PushUserWindowed(state, content, rid) ==
  [state EXCEPT !.messages =
     IF Len(@) >= 4 THEN SubSeq(@, Len(@) - 2, Len(@)) \o <<UserMsg(content, rid)>>
     ELSE Append(@, UserMsg(content, rid))]

PushUser(state, content, rid) ==
  [state EXCEPT !.messages = Append(@, UserMsg(content, rid))]

\* the handler without its re-entry guard
AfterLoadUnguarded(w, state) ==
  /\ loc' = [loc EXCEPT ![w] = Some(PushUser(state, req[w].message, req[w].rid))]
  /\ pc' = [pc EXCEPT ![w] = "d_claude"]
  /\ UNCHANGED resp

\* handler after getConversation/initConversation returned state: the re-entry
\* guard, else the user message is appended and callClaude is awaited
AfterLoad(w, state) ==
  IF state.isComplete
  THEN /\ resp' = [resp EXCEPT ![w] = Some(CachedResponse(state))]
       /\ loc' = [loc EXCEPT ![w] = Some(state)]
       /\ pc' = [pc EXCEPT ![w] = "done"]
  ELSE /\ loc' = [loc EXCEPT ![w] = Some(PushUser(state, req[w].message, req[w].rid))]
       /\ pc' = [pc EXCEPT ![w] = "d_claude"]
       /\ UNCHANGED resp

\* getConversation: null without Redis (then initConversation saves nothing),
\* the stored value, or a thrown Redis error
ChatGet(w) ==
  /\ pc[w] = "d_get"
  /\ \/ /\ ~hasRedis
        /\ AfterLoad(w, initConversationDiag(VISITEUR))
        /\ UNCHANGED << req, faults >>
     \/ /\ hasRedis /\ diagStore # None
        /\ AfterLoad(w, diagStore[1])
        /\ req' = [req EXCEPT ![w].readVer = diagVer]
        /\ UNCHANGED faults
     \/ /\ hasRedis /\ diagStore = None
        /\ loc' = [loc EXCEPT ![w] = Some(initConversationDiag(VISITEUR))]
        /\ pc' = [pc EXCEPT ![w] = "d_init"]
        /\ req' = [req EXCEPT ![w].readVer = diagVer]
        /\ UNCHANGED << resp, faults >>
     \/ /\ hasRedis /\ faults < MaxFaults
        /\ faults' = faults + 1
        /\ Fail(w, "redis")
        /\ UNCHANGED << req, loc >>
  /\ UNCHANGED << envVars, nreq, issued, diagStore, diagVer, diagTtl, teamVars, claudeCalls,
                  scoreCalls, routerVars >>

\* the saveConversation awaited by initConversation
ChatInit(w) ==
  /\ pc[w] = "d_init"
  /\ \/ /\ diagStore' = loc[w]
        /\ diagVer' = diagVer + 1
        /\ diagTtl' = Some(SessionExpiry)
        /\ AfterLoad(w, loc[w][1])
        /\ UNCHANGED faults
     \/ /\ faults < MaxFaults
        /\ faults' = faults + 1
        /\ Fail(w, "redis")
        /\ UNCHANGED << diagStore, diagVer, diagTtl, loc >>
  /\ UNCHANGED << envVars, nreq, issued, teamVars, req, claudeCalls, scoreCalls,
                  routerVars >>

\* a handler that appends the reply without state.questionCount++
AfterReplyUncounted(state, agentResponse) ==
  LET isComplete == includes(agentResponse, SENTINEL)
      cleanResponse == trim(ReplaceFirst(agentResponse, SENTINEL))
  IN [state EXCEPT !.messages = Append(@, AssistantMsg(cleanResponse)),
                   !.isComplete = IF isComplete THEN TRUE ELSE @]

\* handler after callClaude returned agentResponse
AfterReply(state, agentResponse) ==
  LET isComplete == includes(agentResponse, SENTINEL)
      cleanResponse == trim(ReplaceFirst(agentResponse, SENTINEL))
  IN [state EXCEPT !.messages = Append(@, AssistantMsg(cleanResponse)),
                   !.questionCount = @ + 1,
                   !.isComplete = IF isComplete THEN TRUE ELSE @]

\* a mock reply indexed with Math.max in place of Math.min
MockReplyMax(messages, firstName) ==
  LET n == CountRole(messages, "user")
      idx == IF n > 6 THEN n ELSE 6
  IN mockResponses(firstName)[idx + 1]

\* the mock reply of callClaude when there is no client
MockReply(messages, firstName) ==
  LET n == CountRole(messages, "user")
      idx == IF n < 6 THEN n ELSE 6
  IN mockResponses(firstName)[idx + 1]

\* callClaude and the synchronous code up to the next await; replies are the
\* texts the completion service may return
ChatClaude(w, replies) ==
  /\ pc[w] = "d_claude"
  /\ claudeCalls' = claudeCalls + 1
  /\ LET state == loc[w][1]
         continue(reply) ==
           /\ loc' = [loc EXCEPT ![w] = Some(AfterReply(state, reply))]
           /\ pc' = [pc EXCEPT ![w] =
                       IF includes(reply, SENTINEL) THEN "d_score" ELSE "d_save"]
           /\ UNCHANGED resp
     IN \/ /\ ~hasKey
           /\ continue(MockReply(state.messages, state.firstName))
           /\ UNCHANGED faults
        \/ /\ hasKey
           /\ \E reply \in replies : continue(reply)
           /\ UNCHANGED faults
        \/ /\ hasKey /\ faults < MaxFaults
           /\ faults' = faults + 1
           /\ continue(FALLBACK_REPLY)
        \/ /\ hasKey /\ faults < MaxFaults
           /\ faults' = faults + 1
           /\ Fail(w, "completion")
           /\ UNCHANGED loc
  /\ UNCHANGED << envVars, nreq, issued, diagStore, diagVer, diagTtl, teamVars, req, scoreCalls,
                  routerVars >>

\* calculateScores: the mock scores without a client, else the parsed reply or
\* the fallback; a thrown API error is not caught by it
calculateScores(client, reply) ==
  IF ~client THEN MockScores ELSE ParseScores(reply)

\* the awaited calculateScores and the assignments; scorings are the indices of
\* the ScoringReplies the completion service may return
ChatScore(w, scorings) ==
  /\ pc[w] = "d_score"
  /\ scoreCalls' = scoreCalls + 1
  /\ LET assign(result) ==
           /\ loc' = [loc EXCEPT ![w] = Some(AssignResult(loc[w][1], result))]
           /\ pc' = [pc EXCEPT ![w] = "d_save"]
           /\ UNCHANGED resp
     IN \/ /\ ~hasKey
           /\ assign(calculateScores(FALSE, None))
           /\ UNCHANGED faults
        \/ /\ hasKey
           /\ \E i \in scorings : assign(calculateScores(TRUE, ScoringReplies[i]))
           /\ UNCHANGED faults
        \/ /\ hasKey /\ faults < MaxFaults
           /\ faults' = faults + 1
           /\ Fail(w, "completion")
           /\ UNCHANGED loc
  /\ UNCHANGED << envVars, nreq, issued, diagStore, diagVer, diagTtl, teamVars, req, claudeCalls,
                  routerVars >>

\* state holds the user turn of request rid
HasTurn(state, rid) ==
  \E i \in DOMAIN state.messages :
    state.messages[i].role = "user" /\ state.messages[i].rid = rid

\* ghost bookkeeping of a successful saveConversation followed by the 200
Acknowledge(w) ==
  acked' = IF HasTurn(loc[w][1], req[w].rid)
           THEN acked \cup {[kind |-> req[w].kind, rid |-> req[w].rid,
                            readVer |-> req[w].readVer]}
           ELSE acked

\* a saveConversation that appends this request's new messages to whatever is
\* stored at the time of the write instead of overwriting it
NewMessages(state, stored) ==
  SelectSeq(state.messages,
            LAMBDA m : \A i \in DOMAIN stored.messages : stored.messages[i] # m)

ChatSaveAppending(w) ==
  /\ pc[w] = "d_save"
  /\ hasRedis
  /\ diagStore' = IF diagStore = None THEN loc[w]
                  ELSE Some([loc[w][1] EXCEPT !.messages =
                               diagStore[1].messages \o NewMessages(loc[w][1], diagStore[1])])
  /\ diagVer' = diagVer + 1
  /\ diagTtl' = Some(SessionExpiry)
  /\ req' = [req EXCEPT ![w].savedVer = diagVer + 1]
  /\ resp' = [resp EXCEPT ![w] = Some(TurnResponse(loc[w][1]))]
  /\ pc' = [pc EXCEPT ![w] = "done"]
  /\ Acknowledge(w)
  /\ UNCHANGED << cfgVars, nreq, issued, teamVars, loc, claudeCalls, scoreCalls,
                  routerVars, faults >>

\* a saveConversation whose redis.set passes no ex option: the key is written
\* without an expiry
ChatSaveWithoutExpiry(w) ==
  /\ pc[w] = "d_save"
  /\ hasRedis
  /\ diagStore' = loc[w]
  /\ diagVer' = diagVer + 1
  /\ diagTtl' = None
  /\ req' = [req EXCEPT ![w].savedVer = diagVer + 1]
  /\ resp' = [resp EXCEPT ![w] = Some(TurnResponse(loc[w][1]))]
  /\ pc' = [pc EXCEPT ![w] = "done"]
  /\ Acknowledge(w)
  /\ UNCHANGED << cfgVars, nreq, issued, teamVars, loc, claudeCalls, scoreCalls,
                  routerVars, faults >>

\* saveConversation and the 200 response
ChatSave(w) ==
  /\ pc[w] = "d_save"
  /\ LET respond ==
           /\ resp' = [resp EXCEPT ![w] = Some(TurnResponse(loc[w][1]))]
           /\ pc' = [pc EXCEPT ![w] = "done"]
     IN \/ /\ ~hasRedis
           /\ respond
           /\ UNCHANGED << diagStore, diagVer, diagTtl, req, faults, acked >>
        \/ /\ hasRedis
           /\ diagStore' = loc[w]
           /\ diagVer' = diagVer + 1
           /\ diagTtl' = Some(SessionExpiry)
           /\ req' = [req EXCEPT ![w].savedVer = diagVer + 1]
           /\ respond
           /\ Acknowledge(w)
           /\ UNCHANGED faults
        \/ /\ hasRedis /\ faults < MaxFaults
           /\ faults' = faults + 1
           /\ Fail(w, "redis")
           /\ UNCHANGED << diagStore, diagVer, diagTtl, req, acked >>
  /\ UNCHANGED << cfgVars, nreq, issued, teamVars, loc, claudeCalls, scoreCalls,
                  routerVars >>

(***************************************************************************)
(* Specification of the interview endpoint.                                *)
(***************************************************************************)
InitCommon ==
  /\ hasKey \in BOOLEAN
  /\ hasRedis \in BOOLEAN
  /\ nreq = 0
  /\ issued = FALSE
  /\ diagStore = None
  /\ teamStore = None
  /\ diagVer = 0
  /\ teamVer = 0
  /\ diagTtl = None
  /\ teamTtl = None
  /\ pc = [w \in Workers |-> "idle"]
  /\ req = [w \in Workers |-> NoReq]
  /\ loc = [w \in Workers |-> None]
  /\ resp = [w \in Workers |-> None]
  /\ claudeCalls = 0
  /\ scoreCalls = 0
  /\ routeCalls = 0
  /\ route = None
  /\ redirect = None
  /\ sanitized = None
  /\ acked = {}
  /\ anthropic = None
  /\ constructed = 0
  /\ got = [w \in Workers |-> None]
  /\ pdfs = {}
  /\ emails = {}

\* one handler instance at a time, MaxRequests requests
Init == InitCommon /\ faults = 0 /\ budget = MaxRequests /\ handlers = {"h1"}

\* two overlapping handler instances, MaxRaceRequests requests
InitRace == InitCommon /\ faults = 0 /\ budget = MaxRaceRequests /\ handlers = Workers

DiagNextOn(replies, scorings) ==
  \/ \E honeypot \in BOOLEAN : DiagStart(honeypot)
  \/ \E w \in Workers : ChatReceive(w)
  \/ \E w \in Workers : ChatGet(w)
  \/ \E w \in Workers : ChatInit(w)
  \/ \E w \in Workers : ChatClaude(w, replies)
  \/ \E w \in Workers : ChatScore(w, scorings)
  \/ \E w \in Workers : ChatSave(w)

DiagNext == DiagNextOn(InterviewReplies, 1..Len(ScoringReplies))

Next == DiagNext

Spec == Init /\ [][Next]_vars

SpecRace == InitRace /\ [][Next]_vars

(***************************************************************************)
(* Properties of the interview endpoint.                                   *)
(***************************************************************************)
Stored == diagStore[1]

\* the result fields of a state or response, as a record
ResultOf(o) == [k \in ResultFields \cap DOMAIN o |-> o[k]]

\* C1: a request whose getConversation returns a stored state with
\* isComplete=true answers with the stored scores, grade and pack, ends there
\* (no call of the completion service or of the scoring step), does not
\* increment questionCount and leaves the stored session unchanged.
ReentryGuardFrame ==
  [][\A w \in Workers :
       ( /\ pc[w] = "d_get" /\ pc'[w] # "d_get"
         /\ faults' = faults
         /\ diagStore # None /\ Stored.isComplete )
       => ( /\ pc'[w] = "done"
            /\ resp'[w] # None
            /\ resp'[w][1].status = 200
            /\ resp'[w][1].isComplete
            /\ ResultOf(resp'[w][1]) = ResultOf(Stored)
            /\ loc'[w] = diagStore
            /\ claudeCalls' = claudeCalls
            /\ scoreCalls' = scoreCalls
            /\ diagStore' = diagStore )]_vars

\* a request answered from a completed stored session that holds scores
ReentryWitness ==
  \E w \in Workers :
    /\ pc[w] = "done" /\ resp[w] # None /\ loc[w] # None
    /\ resp[w][1].status = 200
    /\ Has(resp[w][1], "message") /\ resp[w][1].message = DEJA_TERMINE
    /\ Has(resp[w][1], "scores")
    /\ diagStore = loc[w]

\* C2: in every stored state questionCount is between 1 and 7.
QuestionCountInRange ==
  diagStore # None => (Stored.questionCount >= 1 /\ Stored.questionCount <= 7)

\* C3: a stored session is complete only once 7 questions have been asked.
CompleteOnlyAfterSeven ==
  (diagStore # None /\ Stored.isComplete) => Stored.questionCount >= 7

\* C4: in every stored state, scores is defined if and only if isComplete.
ScoresIffComplete ==
  diagStore # None => (Has(Stored, "scores") <=> Stored.isComplete)

WellFormedResult(r) ==
  /\ DOMAIN r = ResultFields
  /\ DOMAIN r.scores = Dimensions
  /\ \A d \in Dimensions : r.scores[d] \in 0..100
  /\ r.grade \in {"A", "B", "C", "D", "E"}
  /\ r.pack \in {"Pack 1", "Pack 2", "Pack 3"}

\* C5: the result attached to a completed session is a complete, valid result
\* or else the fixed neutral fallback.
ResultValidOrFallback ==
  (diagStore # None /\ Stored.isComplete) =>
     (WellFormedResult(ResultOf(Stored)) \/ ResultOf(Stored) = FallbackScores)

\* C6: no request is answered with an error response because the completion
\* service failed.
CompletionFailureNeverErrors ==
  \A w \in Workers :
    resp[w] # None => ~(resp[w][1].status = 500 /\ resp[w][1].details = "completion")

\* C7: once a stored session is complete, every later stored state is complete
\* with the same scores, grade, summary, recommendations and pack.
CompleteIsFrozen ==
  [][(diagStore # None /\ Stored.isComplete /\ diagStore' # None)
       => (diagStore'[1].isComplete /\ ResultOf(diagStore'[1]) = ResultOf(Stored))]_vars

\* C8: the scoring step is invoked at most once over the lifetime of a session.
ScoredAtMostOnce == scoreCalls <= 1

\* the sum of the six dimension scores
SumScores(scores) ==
  scores.vision + scores.competences + scores.gouvernance
    + scores.processus + scores.data + scores.outils

\* the letter the breakpoints 80, 60, 40, 20 give to the mean of six scores
\* (mean >= b exactly when sum >= 6 * b)
LetterOfSum(sum) ==
  IF sum >= 480 THEN "A"
  ELSE IF sum >= 360 THEN "B"
  ELSE IF sum >= 240 THEN "C"
  ELSE IF sum >= 120 THEN "D"
  ELSE "E"

\* a stored state holds six integer scores between 0 and 100
SixScoresInRange(state) ==
  /\ Has(state, "scores")
  /\ DOMAIN state.scores = Dimensions
  /\ \A d \in Dimensions : state.scores[d] \in 0..100

\* C21: the grade stored with a completed session is the letter given by the
\* mean of its six scores (A from 80, B from 60, C from 40, D from 20, else E).
GradeIsLetterOfMean ==
  (diagStore # None /\ Stored.isComplete) =>
     ( /\ SixScoresInRange(Stored)
       /\ Has(Stored, "grade")
       /\ Stored.grade = LetterOfSum(SumScores(Stored.scores)) )

\* the same for the sessions whose six scores are well formed
GradeIsLetterOfMeanWhenScored ==
  (diagStore # None /\ Stored.isComplete /\ SixScoresInRange(Stored) /\ Has(Stored, "grade")) =>
     Stored.grade = LetterOfSum(SumScores(Stored.scores))

\* the pack the grades give: D and E the first, B and C the second, A the third
PackOfGrade(grade) ==
  IF grade = "A" THEN "Pack 3"
  ELSE IF grade \in {"B", "C"} THEN "Pack 2"
  ELSE "Pack 1"

\* C22: the pack stored with a completed session is the one its stored grade
\* determines, on the mock path and the fallback path too.
PackFollowsGrade ==
  (diagStore # None /\ Stored.isComplete) =>
     ( /\ Has(Stored, "grade") /\ Has(Stored, "pack")
       /\ Stored.grade \in {"A", "B", "C", "D", "E"}
       /\ Stored.pack = PackOfGrade(Stored.grade) )

\* the same for the results the code builds without reading a scoring reply
BuiltInPackFollowsGrade ==
  (diagStore # None /\ Stored.isComplete /\ ResultOf(Stored) \in {MockScores, FallbackScores}) =>
     Stored.pack = PackOfGrade(Stored.grade)

\* C23: the scores attached to a completed session are exactly the six
\* dimensions, each an integer between 0 and 100, whatever the scoring reply.
ScoresAreSixInRange ==
  (diagStore # None /\ Stored.isComplete) => SixScoresInRange(Stored)

\* C24: a request during which a session-store get or set fails is still
\* answered with a normal conversational response, never with an error.
StoreFailureNeverErrors ==
  \A w \in Workers :
    resp[w] # None => ~(resp[w][1].status = 500 /\ resp[w][1].details = "redis")

\* the assistant messages of a message list, in order
AssistantContents(messages) ==
  LET turns == SelectSeq(messages, LAMBDA m : m.role = "assistant")
  IN [i \in 1..Len(turns) |-> turns[i].content]

\* the scripted reply as the handler stores it
Scripted(firstName, i) == trim(ReplaceFirst(mockResponses(firstName)[i], SENTINEL))

\* C25: with the built-in scripted replies, a session is incomplete after each
\* of the first six user answers and complete, with scores, after the seventh.
ScriptedSeventhAnswerCompletes ==
  (~hasKey /\ diagStore # None) =>
     ( /\ Stored.isComplete <=> CountRole(Stored.messages, "user") = 7
       /\ Stored.isComplete => Has(Stored, "scores") )

\* C25, second half: the scripted questions are asked in order, none skipped:
\* the k-th reply stored is the k-th scripted reply.
ScriptedQuestionsInOrder ==
  (~hasKey /\ diagStore # None) =>
     LET asked == AssistantContents(Stored.messages)
     IN \A k \in 1..(Len(asked) - 1) : asked[k + 1] = Scripted(Stored.firstName, k)

\* what the scripted path does: the first scripted reply is never sent and
\* the sixth answer completes the session
ScriptedSixthAnswerCompletes ==
  (~hasKey /\ diagStore # None) =>
     LET asked == AssistantContents(Stored.messages)
     IN /\ Stored.isComplete <=> CountRole(Stored.messages, "user") = 6
        /\ \A k \in 1..(Len(asked) - 1) : asked[k + 1] = Scripted(Stored.firstName, k + 1)

\* state next is state prev with one user message and one assistant message
\* appended and questionCount increased by one
OneTurnAdded(prev, next) ==
  LET n == Len(prev.messages)
  IN /\ Len(next.messages) = n + 2
     /\ SubSeq(next.messages, 1, n) = prev.messages
     /\ next.messages[n + 1].role = "user"
     /\ next.messages[n + 2].role = "assistant"
     /\ next.questionCount = prev.questionCount + 1

\* in every stored state questionCount is the number of assistant messages
QuestionCountIsAssistantTurns ==
  diagStore # None => Stored.questionCount = CountRole(Stored.messages, "assistant")

\* every write over a stored session adds one turn to it
EveryWriteAddsOneTurn ==
  [][(diagStore # None /\ diagVer' # diagVer) => OneTurnAdded(Stored, diagStore'[1])]_vars

\* C30: in every stored state questionCount equals the number of assistant
\* messages, and each accepted user message on an incomplete session adds one
\* user message and one assistant message and increases questionCount by one.
OneQuestionPerAnswer ==
  /\ [](QuestionCountIsAssistantTurns)
  /\ EveryWriteAddsOneTurn

\* C30, for the writes of a request that no other write overtook: in every
\* stored state questionCount equals the number of assistant messages, and a
\* request that writes over the very state it read adds one user message and
\* one assistant message to it and increases questionCount by one.
OneQuestionPerUnovertakenAnswer ==
  /\ [](QuestionCountIsAssistantTurns)
  /\ [][\A w \in Workers :
          ( /\ diagStore # None /\ diagVer' # diagVer
            /\ pc[w] = "d_save" /\ pc'[w] = "done"
            /\ req[w].readVer = diagVer )
          => OneTurnAdded(Stored, diagStore'[1])]_vars

\* a session stored after three answers, the last of them just acknowledged and
\* written over the state its request had read
SeveralAnswersStored ==
  /\ diagStore # None /\ Stored.questionCount >= 4
  /\ CountRole(Stored.messages, "user") = Stored.questionCount - 1
  /\ \E w \in Workers :
       /\ pc[w] = "done" /\ resp[w] # None /\ resp[w][1].status = 200
       /\ loc[w] = diagStore /\ req[w].savedVer = diagVer
       /\ req[w].readVer + 1 = req[w].savedVer

\* the response says isComplete=true
SaysComplete(r) == Has(r, "isComplete") /\ r.isComplete

\* C26: a response carries scores, grade, summary, recommendations or pack
\* only when its isComplete field is true.
ResultFieldsOnlyWhenComplete ==
  \A w \in Workers :
    (resp[w] # None /\ ~SaysComplete(resp[w][1])) =>
       ResultFields \cap DOMAIN resp[w][1] = {}

\* one request answered with isComplete=false after a turn and another answered
\* with isComplete=true and the scores, on the same session
BothKindsOfResponse ==
  \E v, w \in Workers :
    /\ resp[v] # None /\ resp[v][1].status = 200
    /\ Has(resp[v][1], "isComplete") /\ ~resp[v][1].isComplete
    /\ resp[v][1].questionCount >= 2
    /\ resp[w] # None /\ resp[w][1].status = 200
    /\ SaysComplete(resp[w][1]) /\ Has(resp[w][1], "scores")
    /\ Has(resp[w][1], "questionCount")


(***************************************************************************)
(* The persona router: keyword taxonomies (src/lib/team-prompts.ts         *)
(* ROUTING_RULES, src/api/team/chat.ts shouldRedirect).                    *)
(***************************************************************************)
AgentIds == {"lea", "marc", "sophie"}

\* Object.entries(ROUTING_RULES) and Object.entries(scores): insertion order
AgentOrder == <<"lea", "marc", "sophie">>

LeaKeywords ==
  << <<"r","o","i">>,
     <<"b","u","d","g","e","t">>,
     <<"s","t","r","a","t","é","g","i","e">>,
     <<"s","t","r","a","t","e","g","i","e">>,
     <<"p","r","i","o","r","i","s","e","r">>,
     <<"c","o","m","m","e","n","c","e","r">>,
     <<"p","e","r","t","i","n","e","n","t">>,
     <<"p","e","r","t","i","n","e","n","c","e">>,
     <<"b","u","s","i","n","e","s","s">>,
     <<"v","a","l","e","u","r">>,
     <<"i","n","v","e","s","t","i","r">>,
     <<"i","n","v","e","s","t","i","s","s","e","m","e","n","t">>,
     <<"c","o","û","t">>,
     <<"c","o","u","t">>,
     <<"r","e","n","t","a","b","l","e">>,
     <<"r","e","n","t","a","b","i","l","i","t","é">>,
     <<"o","b","j","e","c","t","i","f">>,
     <<"v","i","s","i","o","n">>,
     <<"t","r","a","n","s","f","o","r","m","a","t","i","o","n">>,
     <<"d","i","g","i","t","a","l","e">>,
     <<"d","i","g","i","t","a","l">>,
     <<"p","r","i","o","r","i","t","é">>,
     <<"p","r","i","o","r","i","t","e">>,
     <<"o","p","p","o","r","t","u","n","i","t","é">>,
     <<"o","p","p","o","r","t","u","n","i","t","e">>,
     <<"s","e","c","t","e","u","r">>,
     <<"i","n","d","u","s","t","r","i","e">> >>

MarcKeywords ==
  << <<"t","e","c","h","n","i","q","u","e">>,
     <<"i","n","t","é","g","r","a","t","i","o","n">>,
     <<"i","n","t","e","g","r","a","t","i","o","n">>,
     <<"a","p","i">>,
     <<"r","a","g">>,
     <<"c","h","a","t","g","p","t">>,
     <<"c","o","p","i","l","o","t">>,
     <<"c","l","a","u","d","e">>,
     <<"l","l","m">>,
     <<"o","u","t","i","l">>,
     <<"o","u","t","i","l","s">>,
     <<"e","r","p">>,
     <<"c","r","m">>,
     <<"s","a","l","e","s","f","o","r","c","e">>,
     <<"m","i","c","r","o","s","o","f","t">>,
     <<"a","u","t","o","m","a","t","i","s","a","t","i","o","n">>,
     <<"w","o","r","k","f","l","o","w">>,
     <<"n","8","n">>,
     <<"c","o","d","e">>,
     <<"d","é","v","e","l","o","p","p","e","m","e","n","t">>,
     <<"d","e","v","e","l","o","p","p","e","m","e","n","t">>,
     <<"a","r","c","h","i","t","e","c","t","u","r","e">>,
     <<"s","é","c","u","r","i","t","é">>,
     <<"s","e","c","u","r","i","t","e">>,
     <<"d","o","n","n","é","e","s">>,
     <<"d","o","n","n","e","e","s">>,
     <<"f","a","i","s","a","b","l","e">>,
     <<"f","a","i","s","a","b","i","l","i","t","é">>,
     <<"f","a","i","s","a","b","i","l","i","t","e">>,
     <<"c","h","a","t","b","o","t">>,
     <<"b","o","t">>,
     <<"c","o","m","m","e","n","t"," ","ç","a"," ","m","a","r","c","h","e">>,
     <<"c","o","m","m","e","n","t"," ","c","a"," ","m","a","r","c","h","e">>,
     <<"f","o","n","c","t","i","o","n","n","e","m","e","n","t">> >>

SophieKeywords ==
  << <<"p","r","o","j","e","t">>,
     <<"é","t","a","p","e">>,
     <<"e","t","a","p","e">>,
     <<"p","l","a","n","n","i","n","g">>,
     <<"d","u","r","é","e">>,
     <<"d","u","r","e","e">>,
     <<"t","e","m","p","s">>,
     <<"c","o","m","b","i","e","n"," ","d","e"," ","t","e","m","p","s">>,
     <<"l","i","v","r","a","b","l","e">>,
     <<"f","o","r","m","a","t","i","o","n">>,
     <<"é","q","u","i","p","e">>,
     <<"e","q","u","i","p","e">>,
     <<"a","c","c","o","m","p","a","g","n","e","m","e","n","t">>,
     <<"m","é","t","h","o","d","o","l","o","g","i","e">>,
     <<"m","e","t","h","o","d","o","l","o","g","i","e">>,
     <<"g","o","u","v","e","r","n","a","n","c","e">>,
     <<"l","o","i"," ","2","5">>,
     <<"r","g","p","d">>,
     <<"c","o","n","f","o","r","m","i","t","é">>,
     <<"c","o","n","f","o","r","m","i","t","e">>,
     <<"c","h","a","n","g","e","m","e","n","t">>,
     <<"a","d","o","p","t","i","o","n">>,
     <<"d","é","p","l","o","i","e","m","e","n","t">>,
     <<"d","e","p","l","o","i","e","m","e","n","t">>,
     <<"c","a","l","e","n","d","r","i","e","r">>,
     <<"s","e","m","a","i","n","e","s">>,
     <<"m","o","i","s">> >>

ROUTING_RULES == [lea |-> LeaKeywords, marc |-> MarcKeywords, sophie |-> SophieKeywords]

technicalKeywords ==
  << <<"r","a","g">>,
     <<"l","l","m">>,
     <<"a","p","i">>,
     <<"i","n","t","é","g","r","a","t","i","o","n">>,
     <<"i","n","t","e","g","r","a","t","i","o","n">>,
     <<"i","n","s","t","a","l","l","e","r">>,
     <<"i","n","s","t","a","l","l","a","t","i","o","n">>,
     <<"t","e","c","h","n","i","q","u","e">>,
     <<"t","e","c","h","n","i","q","u","e","m","e","n","t">>,
     <<"o","u","t","i","l">>,
     <<"o","u","t","i","l","s">>,
     <<"c","o","d","e">>,
     <<"d","é","v","e","l","o","p","p","e","r">>,
     <<"c","h","a","t","g","p","t">>,
     <<"c","o","p","i","l","o","t">>,
     <<"c","l","a","u","d","e">>,
     <<"e","r","p">>,
     <<"c","r","m">>,
     <<"s","h","a","r","e","p","o","i","n","t">>,
     <<"a","u","t","o","m","a","t","i","s","a","t","i","o","n">>,
     <<"w","o","r","k","f","l","o","w">>,
     <<"f","i","n","e","-","t","u","n","i","n","g">>,
     <<"f","i","n","e"," ","t","u","n","i","n","g">>,
     <<"p","r","o","m","p","t">>,
     <<"e","m","b","e","d","d","i","n","g">>,
     <<"v","e","c","t","o","r">>,
     <<"e","l","a","s","t","i","c","s","e","a","r","c","h">>,
     <<"a","r","c","h","i","t","e","c","t","u","r","e"," ","t","e","c","h","n","i","q","u","e">>,
     <<"c","o","n","n","e","c","t","e","u","r">>,
     <<"i","n","d","e","x","e","r">>,
     <<"i","n","d","e","x","a","t","i","o","n">>,
     <<"c","o","n","f","i","g","u","r","e","r">> >>

strategyKeywords ==
  << <<"s","t","r","a","t","é","g","i","e">>,
     <<"s","t","r","a","t","e","g","i","e">>,
     <<"r","o","i">>,
     <<"r","e","t","o","u","r"," ","s","u","r"," ","i","n","v","e","s","t","i","s","s","e","m","e","n","t">>,
     <<"b","u","d","g","e","t">>,
     <<"p","r","i","o","r","i","s","e","r">>,
     <<"p","r","i","o","r","i","t","é">>,
     <<"p","r","i","o","r","i","t","e">>,
     <<"b","u","s","i","n","e","s","s">>,
     <<"v","a","l","e","u","r"," ","a","j","o","u","t","é","e">>,
     <<"p","e","r","t","i","n","e","n","t">>,
     <<"p","e","r","t","i","n","e","n","c","e">>,
     <<"c","o","m","m","e","n","c","e","r">>,
     <<"d","é","b","u","t","e","r">>,
     <<"p","a","r"," ","o","ù">>,
     <<"i","n","v","e","s","t","i","r">>,
     <<"i","n","v","e","s","t","i","s","s","e","m","e","n","t">>,
     <<"r","e","n","t","a","b","l","e">>,
     <<"r","e","n","t","a","b","i","l","i","t","é">>,
     <<"o","b","j","e","c","t","i","f"," ","b","u","s","i","n","e","s","s">> >>

projectKeywords ==
  << <<"p","l","a","n","n","i","n","g">>,
     <<"d","u","r","é","e">>,
     <<"d","u","r","e","e">>,
     <<"c","o","m","b","i","e","n"," ","d","e"," ","t","e","m","p","s">>,
     <<"d","é","l","a","i">>,
     <<"d","e","l","a","i">>,
     <<"m","é","t","h","o","d","o","l","o","g","i","e">>,
     <<"m","e","t","h","o","d","o","l","o","g","i","e">>,
     <<"g","o","u","v","e","r","n","a","n","c","e">>,
     <<"l","o","i"," ","2","5">>,
     <<"r","g","p","d">>,
     <<"f","o","r","m","a","t","i","o","n">>,
     <<"a","c","c","o","m","p","a","g","n","e","m","e","n","t">>,
     <<"l","i","v","r","a","b","l","e">>,
     <<"é","t","a","p","e","s"," ","d","u"," ","p","r","o","j","e","t">>,
     <<"d","é","r","o","u","l","e","m","e","n","t">> >>

(***************************************************************************)
(* The persona router: functions (src/api/team/chat.ts).                   *)
(***************************************************************************)
Max(S) == CHOOSE x \in S : \A y \in S : y <= x

\* the number of entries of a keyword list found in the lowercased message
CountMatches(lowerMessage, keywords) ==
  Cardinality({i \in 1..Len(keywords) : includes(lowerMessage, keywords[i])})

\* messages the router is exercised on
RouteInputs ==
  { <<"B","o","n","j","o","u","r">>,
    <<"Q","u","e","l"," ","e","s","t"," ","l","e"," ","R","O","I"," ","p","o","u","r"," ","m","o","n"," ","s","e","c","t","e","u","r"," ","?">>,
    <<"U","n"," ","R","A","G"," ","?">>,
    <<"a","p","i"," ","e","t"," ","c","r","m">>,
    <<"p","l","a","n","n","i","n","g"," ","d","e"," ","f","o","r","m","a","t","i","o","n">>,
    <<"b","u","d","g","e","t"," ","d","u"," ","p","r","o","j","e","t">>,
    <<"o","u","t","i","l","s">>,
    <<"a","p","i"," ","p","l","a","n","n","i","n","g">>,
    <<"t","r","o","i","s"," ","m","o","i","s">>,
    <<"B","u","d","g","e","t"," ","R","O","I"," ","A","P","I"," ","C","R","M">>,
    <<"r","g","p","d"," ","a","p","i"," ","c","r","m">>,
    <<"m","e","r","c","i">> }

\* request bodies' message for the team chat endpoint
TeamInputs ==
  { <<"B","o","n","j","o","u","r">>,
    <<"U","n"," ","R","A","G"," ","[","s","y","s","t","e","m","]","?">>,
    <<"p","l","a","n","n","i","n","g"," ","d","e"," ","f","o","r","m","a","t","i","o","n">>,
    <<"B","u","d","g","e","t"," ","R","O","I"," ","A","P","I"," ","C","R","M">>,
    <<"m","e","r","c","i">>,
    <<"o","k">>,
    <<"H","E","L","L","O"," ","!">>,
    <<" "," ">>,
    <<"[","S","Y","S","T","E","M","]">> }

\* input.message after the schema's trim transform and sanitizeInput
SanitizedTeam == [text \in TeamInputs |-> sanitizeInputTeam(trim(text))]

KnownMessages == RouteInputs \cup {SanitizedTeam[text] : text \in TeamInputs}

\* the inner loop over rules.keywords, computed once per known message
MatchCountMemo ==
  [m \in KnownMessages |->
     [a \in AgentIds |-> CountMatches(toLowerCase(m), ROUTING_RULES[a])]]

MatchCount(message, a) ==
  IF message \in KnownMessages THEN MatchCountMemo[message][a]
  ELSE CountMatches(toLowerCase(message), ROUTING_RULES[a])

\* the scores record filled by the loops of routeByKeywords
KeywordScores(message) == [a \in AgentIds |-> MatchCount(message, a)]

\* a routeByKeywords that keeps the persona of the previous routing decision
\* when no keyword matches
routeByKeywordsSticky(message) ==
  LET scores == KeywordScores(message)
      maxScore == Max({scores[a] : a \in AgentIds})
      bestAgent == Min({i \in 1..Len(AgentOrder) : scores[AgentOrder[i]] = maxScore})
  IN IF maxScore = 0 THEN (IF route = None THEN "lea" ELSE route[1].agent)
     ELSE AgentOrder[bestAgent]

routeByKeywords(message) ==
  LET scores == KeywordScores(message)
      maxScore == Max({scores[a] : a \in AgentIds})
      bestAgent == Min({i \in 1..Len(AgentOrder) : scores[AgentOrder[i]] = maxScore})
  IN IF maxScore = 0 THEN "lea" ELSE AgentOrder[bestAgent]

\* outcomes of client.messages.create in routeByLLM
Text(t) == [kind |-> "text", text |-> t]
NoText == [kind |-> "notext", text |-> <<>>]
Throws == [kind |-> "throw", text |-> <<>>]

Routed(agent, called) == [agent |-> agent, called |-> called]

AgentName(a) ==
  CASE a = "lea" -> <<"l","e","a">>
    [] a = "marc" -> <<"m","a","r","c">>
    [] a = "sophie" -> <<"s","o","p","h","i","e">>

\* routeByLLM: the persona and whether the completion service was called
routeByLLM(message, client, outcome) ==
  IF ~client THEN Routed(routeByKeywords(message), FALSE)
  ELSE IF outcome.kind = "throw" THEN Routed(routeByKeywords(message), TRUE)
  ELSE LET lowered == IF outcome.kind = "notext" THEN <<>>
                      ELSE trim(toLowerCase(outcome.text))
           agentName == IF lowered = <<>> THEN AgentName("lea") ELSE lowered
       IN IF \E a \in AgentIds : agentName = AgentName(a)
          THEN Routed(CHOOSE a \in AgentIds : agentName = AgentName(a), TRUE)
          ELSE Routed("lea", TRUE)

\* the maxScore loop of smartRoute
SmartRouteMaxScore(message) ==
  Max({0} \cup {MatchCount(message, a) : a \in AgentIds})

smartRouteStrict(message, client, outcome) ==
  IF SmartRouteMaxScore(message) >= 3
  THEN Routed(routeByKeywords(message), FALSE)
  ELSE routeByLLM(message, client, outcome)

smartRoute(message, client, outcome) ==
  IF SmartRouteMaxScore(message) >= 2
  THEN Routed(routeByKeywords(message), FALSE)
  ELSE routeByLLM(message, client, outcome)

(***************************************************************************)
(* Mid-conversation redirect and article citations.                        *)
(***************************************************************************)
\* the scores array of shouldRedirect, in its declaration order
RedirectOrder == <<"marc", "lea", "sophie">>

RedirectKeywords ==
  [marc |-> technicalKeywords, lea |-> strategyKeywords, sophie |-> projectKeywords]

RedirectCountMemo ==
  [m \in KnownMessages |->
     [a \in AgentIds |-> CountMatches(toLowerCase(m), RedirectKeywords[a])]]

\* techScore, strategyScore, projectScore
RedirectScore(message, a) ==
  IF message \in KnownMessages THEN RedirectCountMemo[message][a]
  ELSE CountMatches(toLowerCase(message), RedirectKeywords[a])

\* shouldRedirect with "at least" in place of "clearly higher"
shouldRedirectLoose(message, currentAgent) ==
  LET best == Max({RedirectScore(message, a) : a \in AgentIds})
      bestMatch == RedirectOrder[Min({i \in 1..Len(RedirectOrder) :
                                        RedirectScore(message, RedirectOrder[i]) = best})]
      currentScore == RedirectScore(message, currentAgent)
  IN IF bestMatch # currentAgent /\ best >= 1 /\ best >= currentScore
     THEN Some(bestMatch) ELSE None

\* shouldRedirect: None for null. The sort is stable, so the best match is the
\* first entry of the declaration order that has the highest score
shouldRedirect(message, currentAgent) ==
  LET best == Max({RedirectScore(message, a) : a \in AgentIds})
      bestMatch == RedirectOrder[Min({i \in 1..Len(RedirectOrder) :
                                        RedirectScore(message, RedirectOrder[i]) = best})]
      currentScore == RedirectScore(message, currentAgent)
  IN IF bestMatch # currentAgent /\ best >= 1 /\ best > currentScore
     THEN Some(bestMatch) ELSE None

Article1Keywords ==
  << <<"g","o","u","v","e","r","n","a","n","c","e">>,
     <<"r","è","g","l","e","s">>,
     <<"p","o","l","i","t","i","q","u","e">>,
     <<"e","n","c","a","d","r","e","m","e","n","t">>,
     <<"c","h","a","r","t","e">>,
     <<"d","é","p","l","o","i","e","m","e","n","t">>,
     <<"c","o","m","m","e","n","c","e","r">>,
     <<"d","é","b","u","t","e","r">>,
     <<"p","r","e","m","i","e","r"," ","p","a","s">>,
     <<"p","m","e">>,
     <<"o","r","g","a","n","i","s","a","t","i","o","n">>,
     <<"c","a","d","r","e">>,
     <<"b","o","n","n","e","s"," ","p","r","a","t","i","q","u","e","s">> >>

Article1 == [slug |-> <<"g","o","u","v","e","r","n","a","n","c","e","-","i","a","-","p","m","e">>, keywords |-> Article1Keywords, relevantAgents |-> {"lea", "sophie"}]

Article2Keywords ==
  << <<"l","o","i"," ","2","5">>,
     <<"l","o","i","2","5">>,
     <<"r","g","p","d">>,
     <<"c","o","n","f","o","r","m","i","t","é">>,
     <<"d","o","n","n","é","e","s"," ","p","e","r","s","o","n","n","e","l","l","e","s">>,
     <<"v","i","e"," ","p","r","i","v","é","e">>,
     <<"c","o","n","s","e","n","t","e","m","e","n","t">>,
     <<"q","u","é","b","e","c">>,
     <<"l","é","g","a","l">>,
     <<"j","u","r","i","d","i","q","u","e">>,
     <<"p","r","o","t","e","c","t","i","o","n">>,
     <<"c","o","n","f","i","d","e","n","t","i","a","l","i","t","é">>,
     <<"r","é","g","l","e","m","e","n","t","a","t","i","o","n">> >>

Article2 == [slug |-> <<"l","o","i","-","2","5","-","i","a">>, keywords |-> Article2Keywords, relevantAgents |-> {"lea", "sophie"}]

Article3Keywords ==
  << <<"s","h","a","d","o","w"," ","a","i">>,
     <<"c","h","a","t","g","p","t">>,
     <<"r","i","s","q","u","e">>,
     <<"r","i","s","q","u","e","s">>,
     <<"e","m","p","l","o","y","é","s">>,
     <<"u","s","a","g","e">>,
     <<"n","o","n"," ","c","o","n","t","r","ô","l","é">>,
     <<"e","n","c","a","d","r","e","r">>,
     <<"b","l","o","q","u","e","r">>,
     <<"s","é","c","u","r","i","t","é">>,
     <<"f","u","i","t","e">>,
     <<"d","o","n","n","é","e","s">>,
     <<"c","o","n","f","i","d","e","n","t","i","a","l","i","t","é">>,
     <<"c","o","p","i","l","o","t">>,
     <<"c","l","a","u","d","e">> >>

Article3 == [slug |-> <<"s","h","a","d","o","w","-","a","i","-","r","i","s","q","u","e","s">>, keywords |-> Article3Keywords, relevantAgents |-> {"lea", "marc"}]

ARTICLES_INDEX == << Article1, Article2, Article3 >>

ArticleScore(question, agentId, article) ==
  (IF agentId \in article.relevantAgents THEN 1 ELSE 0)
  + 2 * CountMatches(toLowerCase(question), [i \in 1..Len(article.keywords) |->
                                                toLowerCase(article.keywords[i])])

\* findRelevantArticles with maxResults = 1: None or the first best article
\* whose score is at least 3
findRelevantArticles(question, agentId) ==
  LET ok == {i \in 1..Len(ARTICLES_INDEX) :
               ArticleScore(question, agentId, ARTICLES_INDEX[i]) >= 3}
      top == Max({ArticleScore(question, agentId, ARTICLES_INDEX[i]) : i \in ok})
  IN IF ok = {} THEN None
     ELSE Some(ARTICLES_INDEX[Min({i \in ok :
                 ArticleScore(question, agentId, ARTICLES_INDEX[i]) = top})])

\* formatArticleCitation, abbreviated to the link
formatArticleCitation(articles) ==
  IF articles = None THEN <<>> ELSE <<"\n","\n">> \o <<"/","b","l","o","g","/">> \o articles[1].slug

CitationMemo ==
  [m \in KnownMessages |->
     [a \in AgentIds |-> formatArticleCitation(findRelevantArticles(m, a))]]

Citation(message, agent) ==
  IF message \in KnownMessages THEN CitationMemo[message][agent]
  ELSE formatArticleCitation(findRelevantArticles(message, agent))

(***************************************************************************)
(* The team chat endpoint (src/api/team/chat.ts).                          *)
(* Long literal texts are abbreviated.                                     *)
(***************************************************************************)
AgentDisplayName(a) ==
  CASE a = "lea" -> <<"L","é","a">>
    [] a = "marc" -> <<"M","a","r","c">>
    [] a = "sophie" -> <<"S","o","p","h","i","e">>

AgentRole(a) ==
  CASE a = "lea" -> <<"S","t","r","a","t","è","g","e"," ","I","A">>
    [] a = "marc" -> <<"E","x","p","e","r","t"," ","T","e","c","h","n","i","q","u","e">>
    [] a = "sophie" -> <<"C","h","e","f"," ","d","e"," ","P","r","o","j","e","t">>

\* AGENTS[a].greeting
AgentGreeting(a) ==
  CASE a = "lea" -> <<"B","o","n","j","o","u","r"," ","!"," ","J","e"," ","s","u","i","s"," ","L","é","a">>
    [] a = "marc" -> <<"S","a","l","u","t"," ","!"," ","M","o","i"," ","c","'","e","s","t"," ","M","a","r","c">>
    [] a = "sophie" -> <<"B","o","n","j","o","u","r"," ","!"," ","J","e"," ","s","u","i","s"," ","S","o","p","h","i","e">>

ReturningGreeting(a) == <<"R","e","b","o","n","j","o","u","r"," ","!"," ","J","e"," ","s","u","i","s"," ">> \o AgentDisplayName(a) \o <<".">>

TeamUserMsg(content, rid) == [role |-> "user", content |-> content, rid |-> rid]
TeamAssistantMsg(content, agent) == [role |-> "assistant", content |-> content, agent |-> agent]

initConversationTeam(agent) ==
  [messages |-> <<TeamAssistantMsg(AgentGreeting(agent), agent)>>, currentAgent |-> agent]

LastN(seq, n) == IF Len(seq) <= n THEN seq ELSE SubSeq(seq, Len(seq) - n + 1, Len(seq))

\* buildSwitchContext: the hand-off narration
buildSwitchContext(messages, newAgent) ==
  LET previousMessages == LastN(messages, 6)
      others == {i \in 1..Len(previousMessages) :
                   /\ Has(previousMessages[i], "agent")
                   /\ previousMessages[i].agent # newAgent}
      otherAgentName == IF others = {} THEN <<"m","o","n"," ","c","o","l","l","è","g","u","e">>
                        ELSE AgentDisplayName(previousMessages[Min(others)].agent)
  IN IF Len(previousMessages) <= 1 THEN AgentGreeting(newAgent)
     ELSE <<"S","a","l","u","t"," ","!"," ","C","'","e","s","t"," ">> \o AgentDisplayName(newAgent) \o <<"."," ","T","u"," ","d","i","s","c","u","t","a","i","s"," ","a","v","e","c"," ">> \o otherAgentName
          \o <<"."," ","A","s","p","e","c","t","s"," ">> \o toLowerCase(AgentRole(newAgent))

Greetings ==
  { <<"b","o","n","j","o","u","r">>, <<"s","a","l","u","t">>, <<"h","e","l","l","o">>, <<"h","i">>, <<"c","o","u","c","o","u">>, <<"h","e","y">> }

GreetingTail == WhiteSpace \cup {"!", "?", "."}

\* the isGreetingOnly test of the handler
isGreetingOnly(message) ==
  \E g \in Greetings :
    /\ MatchAtCI(message, g, 1)
    /\ \A k \in (Len(g) + 1)..Len(message) : message[k] \in GreetingTail

\* the greetings pattern of the conversation analyser
GreetingsAndClosings ==
  { <<"b","o","n","j","o","u","r">>,
    <<"s","a","l","u","t">>,
    <<"h","e","l","l","o">>,
    <<"h","i">>,
    <<"c","o","u","c","o","u">>,
    <<"h","e","y">>,
    <<"b","o","n","s","o","i","r">>,
    <<"m","e","r","c","i">>,
    <<"o","k">>,
    <<"d","'","a","c","c","o","r","d">>,
    <<"s","u","p","e","r">>,
    <<"p","a","r","f","a","i","t">> }

\* isGreeting of the conversation analyser
isGreeting(text) ==
  \E g \in GreetingsAndClosings :
    /\ MatchAtCI(trim(text), g, 1)
    /\ \A k \in (Len(g) + 1)..Len(trim(text)) : trim(text)[k] \in GreetingTail

\* mockResponses of the team callClaude
TeamMockReply(messages, agentId) ==
  LET n == CountRole(messages, "user") - 1
      idx == IF n < 1 THEN (IF n < 0 THEN 0 ELSE n) ELSE 1
  IN <<agentId, IF idx = 0 THEN "1" ELSE "2">>

\* texts the completion service returns for a team answer
TeamReplies == { <<"R","é","p","o","n","s","e",".">> }

\* replies of the completion service to the routing prompt
RouterReplies ==
  { Text(<<"l","e","a">>), Text(<<" ","M","a","r","c","\n">>), Text(<<"s","o","p","h","i","e">>), Text(<<"m","a","r","c"," ","!">>), Text(<<>>), NoText, Throws }

\* one call of smartRoute on a message, as made by the team chat handler in auto
\* mode; before is a ghost field: what routeByKeywords returned on the previous
\* call when that call had the same message
SmartRouteCall(message) ==
  /\ nreq < budget
  /\ nreq' = nreq + 1
  /\ \E outcome \in RouterReplies :
       LET r == smartRoute(message, hasKey, outcome)
       IN /\ route' = Some([message |-> message, agent |-> r.agent, called |-> r.called,
                             outcome |-> outcome,
                             keywordResult |-> routeByKeywords(message),
                             before |-> IF route # None /\ route[1].message = message
                                        THEN Some(route[1].keywordResult) ELSE None])
          /\ routeCalls' = routeCalls + (IF r.called THEN 1 ELSE 0)
  /\ UNCHANGED << envVars, faults, issued, diagStore, diagVer, diagTtl, teamVars, pc, req, loc, resp,
                  claudeCalls, scoreCalls, redirect, sanitized >>

\* one call of shouldRedirect, as made by the team chat handler on a stored session
ShouldRedirectCall(message, currentAgent) ==
  /\ nreq < budget
  /\ nreq' = nreq + 1
  /\ redirect' = Some([message |-> message, currentAgent |-> currentAgent,
                       result |-> shouldRedirect(message, currentAgent)])
  /\ UNCHANGED << envVars, faults, issued, diagStore, diagVer, diagTtl, teamVars, pc, req, loc, resp,
                  claudeCalls, scoreCalls, routeCalls, route, sanitized >>

InitRoute == InitCommon /\ faults = 0 /\ budget = MaxRouteRequests /\ handlers = {}

RouteNext ==
  \/ \E message \in RouteInputs : SmartRouteCall(message)
  \/ \E message \in RouteInputs, currentAgent \in AgentIds :
       ShouldRedirectCall(message, currentAgent)

SpecRoute == InitRoute /\ [][RouteNext]_vars

diagVars == << issued, diagStore, diagVer, diagTtl >>

\* z.string().max(2000) of chatSchema
MaxMessageLength == 2000

\* a message one character longer than the schema allows
LongMessage == [i \in 1..(MaxMessageLength + 1) |-> "a"]

\* the paths of the issues chatSchema.parse reports for a body; uuid tells
\* whether sessionId has the UUID format. min(1) and max(2000) are checked on
\* the message as received, before the trim transform
InvalidFields(uuid, agent, text) ==
  (IF uuid THEN {} ELSE {"sessionId"})
    \cup (IF agent \in {"lea", "marc", "sophie", "auto"} THEN {} ELSE {"agent"})
    \cup (IF Len(text) >= 1 /\ Len(text) <= MaxMessageLength THEN {} ELSE {"message"})

\* chatSchema.parse and sanitizeInput of a valid request body; an explicit
\* persona is the target, 'auto' awaits smartRoute
TeamReceive(w, agent, text, returning) ==
  /\ w \in handlers
  /\ InvalidFields(TRUE, agent, text) = {}
  /\ pc[w] \in {"idle", "done"}
  /\ nreq < budget
  /\ nreq' = nreq + 1
  /\ req' = [req EXCEPT ![w] =
       [NoReq EXCEPT !.kind = "team", !.rid = nreq + 1, !.message = SanitizedTeam[text],
                     !.agent = agent, !.returning = returning,
                     !.target = IF agent = "auto" THEN "none" ELSE agent]]
  /\ pc' = [pc EXCEPT ![w] = IF agent = "auto" THEN "t_route" ELSE "t_get"]
  /\ loc' = [loc EXCEPT ![w] = None]
  /\ resp' = [resp EXCEPT ![w] = None]
  /\ UNCHANGED << envVars, faults, diagVars, teamVars, claudeCalls, scoreCalls, routerVars >>

\* chatSchema.parse throws a ZodError: 400 with the field-level details
TeamReject(w, uuid, agent, text) ==
  /\ w \in handlers
  /\ pc[w] \in {"idle", "done"}
  /\ nreq < budget
  /\ InvalidFields(uuid, agent, text) # {}
  /\ nreq' = nreq + 1
  /\ req' = [req EXCEPT ![w] = [NoReq EXCEPT !.kind = "team", !.rid = nreq + 1]]
  /\ pc' = [pc EXCEPT ![w] = "done"]
  /\ loc' = [loc EXCEPT ![w] = None]
  /\ resp' = [resp EXCEPT ![w] =
                Some([status |-> 400, fields |-> InvalidFields(uuid, agent, text)])]
  /\ UNCHANGED << envVars, faults, diagVars, teamVars, claudeCalls, scoreCalls, routerVars >>

\* targetAgent = await smartRoute(sanitizedMessage)
TeamRoute(w, outcomes) ==
  /\ pc[w] = "t_route"
  /\ \E outcome \in outcomes :
       LET r == smartRoute(req[w].message, hasKey, outcome)
       IN /\ req' = [req EXCEPT ![w].target = r.agent, ![w].auto = TRUE]
          /\ routeCalls' = routeCalls + (IF r.called THEN 1 ELSE 0)
  /\ pc' = [pc EXCEPT ![w] = "t_get"]
  /\ UNCHANGED << envVars, nreq, faults, diagVars, teamVars, loc, resp, claudeCalls,
                  scoreCalls, route, redirect, sanitized >>

\* the branch of the handler for an absent state
NewConversation(w) ==
  LET targetAgent == req[w].target
      fresh == initConversationTeam(targetAgent)
      state == IF req[w].returning
               THEN [fresh EXCEPT !.messages[1].content = ReturningGreeting(targetAgent)]
               ELSE fresh
  IN /\ req' = [req EXCEPT ![w].isNew = TRUE, ![w].readVer = teamVer]
     /\ IF req[w].auto /\ ~isGreetingOnly(req[w].message)
        THEN /\ loc' = [loc EXCEPT ![w] = Some([state EXCEPT !.messages =
                          Append(@, TeamUserMsg(req[w].message, req[w].rid))])]
             /\ pc' = [pc EXCEPT ![w] = "t_claude"]
        ELSE /\ loc' = [loc EXCEPT ![w] = Some(state)]
             /\ pc' = [pc EXCEPT ![w] = "t_save"]

\* the branch for a stored state without the update of state.currentAgent
ExistingConversationStale(w, stored) ==
  LET redirectAgent == shouldRedirect(req[w].message, req[w].target)
      targetAgent == IF redirectAgent # None /\ redirectAgent[1] # req[w].target
                     THEN redirectAgent[1] ELSE req[w].target
      agentChanged == stored.currentAgent # targetAgent
      switched == IF agentChanged
                  THEN [stored EXCEPT
                          !.messages = Append(@, TeamAssistantMsg(
                                         buildSwitchContext(stored.messages, targetAgent),
                                         targetAgent))]
                  ELSE stored
  IN /\ req' = [req EXCEPT ![w].target = targetAgent, ![w].changed = agentChanged,
                           ![w].readVer = teamVer]
     /\ loc' = [loc EXCEPT ![w] = Some([switched EXCEPT !.messages =
                  Append(@, TeamUserMsg(req[w].message, req[w].rid))])]
     /\ pc' = [pc EXCEPT ![w] = "t_claude"]

\* the branch for a stored state that changes persona without a hand-off
\* narration
ExistingConversationSilent(w, stored) ==
  LET redirectAgent == shouldRedirect(req[w].message, req[w].target)
      targetAgent == IF redirectAgent # None /\ redirectAgent[1] # req[w].target
                     THEN redirectAgent[1] ELSE req[w].target
      agentChanged == stored.currentAgent # targetAgent
      switched == IF agentChanged THEN [stored EXCEPT !.currentAgent = targetAgent]
                  ELSE stored
  IN /\ req' = [req EXCEPT ![w].target = targetAgent, ![w].changed = agentChanged,
                           ![w].readVer = teamVer]
     /\ loc' = [loc EXCEPT ![w] = Some([switched EXCEPT !.messages =
                  Append(@, TeamUserMsg(req[w].message, req[w].rid))])]
     /\ pc' = [pc EXCEPT ![w] = "t_claude"]

\* the branch of the handler for a stored state: redirect, hand-off narration,
\* the user message
ExistingConversation(w, stored) ==
  LET redirectAgent == shouldRedirect(req[w].message, req[w].target)
      targetAgent == IF redirectAgent # None /\ redirectAgent[1] # req[w].target
                     THEN redirectAgent[1] ELSE req[w].target
      agentChanged == stored.currentAgent # targetAgent
      switched == IF agentChanged
                  THEN [stored EXCEPT
                          !.messages = Append(@, TeamAssistantMsg(
                                         buildSwitchContext(stored.messages, targetAgent),
                                         targetAgent)),
                          !.currentAgent = targetAgent]
                  ELSE stored
  IN /\ req' = [req EXCEPT ![w].target = targetAgent, ![w].changed = agentChanged,
                           ![w].readVer = teamVer]
     /\ loc' = [loc EXCEPT ![w] = Some([switched EXCEPT !.messages =
                  Append(@, TeamUserMsg(req[w].message, req[w].rid))])]
     /\ pc' = [pc EXCEPT ![w] = "t_claude"]

\* getConversation: null without Redis and when the Redis get throws
TeamGet(w) ==
  /\ pc[w] = "t_get"
  /\ \/ /\ ~hasRedis \/ teamStore = None
        /\ NewConversation(w)
        /\ UNCHANGED faults
     \/ /\ hasRedis /\ teamStore # None
        /\ ExistingConversation(w, teamStore[1])
        /\ UNCHANGED faults
     \/ /\ hasRedis /\ faults < MaxFaults
        /\ faults' = faults + 1
        /\ NewConversation(w)
  /\ UNCHANGED << envVars, nreq, diagVars, teamVars, resp, claudeCalls, scoreCalls,
                  routerVars >>

\* callClaude, the article citation and the assistant message
TeamClaude(w) ==
  /\ pc[w] = "t_claude"
  /\ claudeCalls' = claudeCalls + 1
  /\ LET state == loc[w][1]
         targetAgent == req[w].target
         continue(reply) ==
           LET agentResponse == reply \o Citation(req[w].message, targetAgent)
           IN /\ loc' = [loc EXCEPT ![w] = Some([state EXCEPT !.messages =
                           Append(@, TeamAssistantMsg(agentResponse, targetAgent))])]
              /\ pc' = [pc EXCEPT ![w] = "t_save"]
              /\ UNCHANGED resp
     IN \/ /\ ~hasKey
           /\ continue(TeamMockReply(state.messages, targetAgent))
           /\ UNCHANGED faults
        \/ /\ hasKey
           /\ \E reply \in TeamReplies : continue(reply)
           /\ UNCHANGED faults
        \/ /\ hasKey /\ faults < MaxFaults
           /\ faults' = faults + 1
           /\ continue(FALLBACK_REPLY)
        \/ /\ hasKey /\ faults < MaxFaults
           /\ faults' = faults + 1
           /\ Fail(w, "completion")
           /\ UNCHANGED loc
  /\ UNCHANGED << envVars, nreq, diagVars, teamVars, req, scoreCalls, routerVars >>

\* the 200 response of the team handler
TeamResponse(state, r) ==
  [status |-> 200,
   message |-> state.messages[Len(state.messages)].content,
   agent |-> r.target,
   isGreeting |-> r.isNew /\ Len(state.messages) = 1,
   wasAutoRouted |-> r.auto,
   agentChanged |-> r.changed,
   messageCount |-> Len(state.messages)]

\* saveConversation and the 200 response
TeamSave(w) ==
  /\ pc[w] = "t_save"
  /\ LET respond ==
           /\ resp' = [resp EXCEPT ![w] = Some(TeamResponse(loc[w][1], req[w]))]
           /\ pc' = [pc EXCEPT ![w] = "done"]
     IN \/ /\ ~hasRedis
           /\ respond
           /\ UNCHANGED << teamVars, req, faults, acked >>
        \/ /\ hasRedis
           /\ teamStore' = loc[w]
           /\ teamVer' = teamVer + 1
           /\ teamTtl' = Some(SessionExpiry)
           /\ req' = [req EXCEPT ![w].savedVer = teamVer + 1]
           /\ respond
           /\ Acknowledge(w)
           /\ UNCHANGED faults
        \/ /\ hasRedis /\ faults < MaxFaults
           /\ faults' = faults + 1
           /\ Fail(w, "redis")
           /\ UNCHANGED << teamVars, req, acked >>
  /\ UNCHANGED << cfgVars, nreq, diagVars, loc, claudeCalls, scoreCalls, routerVars >>

(***************************************************************************)
(* Specification of overlapping requests on both endpoints.                *)
(***************************************************************************)
Selectors == {"lea", "marc", "sophie", "auto"}

\* the request bodies drawn when both endpoints are exercised together
LostSelectors == {"auto"}
LostInputs == { <<"U","n"," ","R","A","G"," ","[","s","y","s","t","e","m","]","?">> }

TeamNextOn(selectors, inputs, flags, outcomes) ==
  \/ \E w \in Workers, agent \in selectors, text \in inputs, returning \in flags :
       TeamReceive(w, agent, text, returning)
  \/ \E w \in Workers : TeamRoute(w, outcomes)
  \/ \E w \in Workers : TeamGet(w)
  \/ \E w \in Workers : TeamClaude(w)
  \/ \E w \in Workers : TeamSave(w)

LostReplies == { <<"Q"," ","?">>, <<"F","i","n","\n">> \o SENTINEL }
LostOutcomes == { Text(<<"m","a","r","c">>) }

\* two overlapping handler instances of the configured deployment (completion
\* key and Redis set), no injected failure
InitLost ==
  /\ InitCommon /\ hasKey /\ hasRedis
  /\ faults = MaxFaults /\ budget = MaxLostRequests /\ handlers = Workers

LostNext ==
  \/ DiagNextOn(LostReplies, {1})
  \/ TeamNextOn(LostSelectors, LostInputs, {FALSE}, LostOutcomes)

SpecLost == InitLost /\ [][LostNext]_vars

\* replies of the completion service to the routing prompt explored with the
\* team chat handler
TeamOutcomes == { Text(<<"s","o","p","h","i","e">>), Text(<<>>), Throws }

\* one handler instance at a time on the team chat endpoint
InitTeam == InitCommon /\ faults = 0 /\ budget = MaxTeamRequests /\ handlers = {"h1"}

\* request messages explored with the team chat handler
TeamMessages ==
  { <<"B","o","n","j","o","u","r">>,
    <<"U","n"," ","R","A","G"," ","[","s","y","s","t","e","m","]","?">>,
    <<"p","l","a","n","n","i","n","g"," ","d","e"," ","f","o","r","m","a","t","i","o","n">>,
    <<"B","u","d","g","e","t"," ","R","O","I"," ","A","P","I"," ","C","R","M">>,
    <<"m","e","r","c","i">> }

TeamNext == TeamNextOn(Selectors, TeamMessages, BOOLEAN, TeamOutcomes)

SpecTeam == InitTeam /\ [][TeamNext]_vars

\* request bodies explored for validation: selectors and messages, valid or not
ValidateSelectors == {"lea", "auto", "bob"}

ValidateMessages ==
  { <<>>, <<" "," ">>, <<"[","S","Y","S","T","E","M","]">>, <<"B","o","n","j","o","u","r">>, LongMessage }

InitValidate ==
  InitCommon /\ faults = MaxFaults /\ budget = MaxValidateRequests /\ handlers = {"h1"}

ValidateNext ==
  \/ TeamNextOn(ValidateSelectors \cap Selectors, ValidateMessages \cap TeamInputs, {FALSE},
                TeamOutcomes)
  \/ \E w \in Workers, uuid \in BOOLEAN, agent \in ValidateSelectors,
        text \in ValidateMessages : TeamReject(w, uuid, agent, text)

SpecValidate == InitValidate /\ [][ValidateNext]_vars


(***************************************************************************)
(* The sanitizer of the interview endpoint on marker-bearing inputs.       *)
(***************************************************************************)
\* messages the sanitizer is exercised on
SanitizeInputs ==
  { <<"4","5",","," ","[","S","y","s","t","e","m","]"," ","D","G">>,
    <<"[","S","Y","S","[","S","Y","S","T","E","M","]","T","E","M","]">>,
    <<"[","A","S","S","I","S","[","A","S","S","I","S","T","A","N","T","]","T","A","N","T","]"," ","o","k">>,
    <<"[","D","I","A","G","N","O","S","T","I","C","_","C","O","M","P","L","E","T","E","]">>,
    <<"[","D","I","A","G","N","O","S","T","I","C","_">> \o FENCE \o <<"C","O","M","P","L","E","T","E","]">>,
    <<"<","|","i","m","_","s","t","a","r","t","|",">","s","y","s","t","e","m">>,
    <<"<","<","|","x","|",">","|","y","|",">">>,
    <<"[","d","i","a","g","n","o","s","t","i","c","_","[","a","s","s","i","s","t","a","n","t","]","c","o","m","p","l","e","t","e","]">>,
    <<"B","o","n","j","o","u","r">>,
    <<"[","S","Y","S","T","E","M","]","[","A","S","S","I","S","T","A","N","T","]">>,
    FENCE \o <<" ","c","o","d","e"," ">> \o FENCE,
    <<"a"," ","<","|","b","\n","|",">"," ","c">>,
    <<" ","[","S","Y","S","<","|","x","|",">","T","E","M","]"," ">> }

\* sanitizeInput(input.message), computed once per input
SanitizedMemo == [text \in SanitizeInputs |-> sanitizeInputDiag(trim(text))]

\* one call of sanitizeInput, as made by the interview handler on input.message
SanitizeCall(text) ==
  /\ nreq < budget
  /\ nreq' = nreq + 1
  /\ sanitized' = Some([input |-> text, output |-> SanitizedMemo[text]])
  /\ UNCHANGED << envVars, faults, issued, diagStore, diagVer, diagTtl, teamVars, pc, req, loc, resp,
                  claudeCalls, scoreCalls, routeCalls, route, redirect >>

InitSanitize ==
  InitCommon /\ faults = 0 /\ budget = MaxSanitizeCalls /\ handlers = {}

SanitizeNext == \E text \in SanitizeInputs : SanitizeCall(text)

SpecSanitize == InitSanitize /\ [][SanitizeNext]_vars


(***************************************************************************)
(* Properties of overlapping requests and of the router.                   *)
(***************************************************************************)
\* handler a and handler b served requests of one endpoint that read the same
\* version of the session, both wrote it, b last, and nothing was written since
Overlapped(kind, a, b, ver) ==
  /\ pc[a] = "done" /\ pc[b] = "done"
  /\ req[a].kind = kind /\ req[b].kind = kind
  /\ req[a].savedVer > 0
  /\ req[b].savedVer > req[a].savedVer
  /\ req[a].readVer = req[b].readVer
  /\ ver = req[b].savedVer

LostIn(kind, store, ver) ==
  \A a, b \in Workers :
    Overlapped(kind, a, b, ver) =>
      /\ store = loc[b]
      /\ HasTurn(loc[a][1], req[a].rid) => ~HasTurn(store[1], req[a].rid)

\* two distinct acknowledged turns of one endpoint whose requests read the same
\* version of the session
SameRead(kind, r, s) ==
  r.kind = kind /\ s.kind = kind /\ r.rid # s.rid /\ r.readVer = s.readVer

NeverBoth(kind, store) ==
  \A r, s \in acked :
    (SameRead(kind, r, s) /\ store # None) =>
       ~(HasTurn(store[1], r.rid) /\ HasTurn(store[1], s.rid))

\* C27: every write of a diagnostic session or of a team session to the store
\* sets an expiry of 86400 seconds on the key.
EveryWriteSetsExpiry ==
  [][ /\ (diagVer' # diagVer \/ diagStore' # diagStore) => diagTtl' = Some(86400)
      /\ (teamVer' # teamVer \/ teamStore' # teamStore) => teamTtl' = Some(86400) ]_vars

\* both keys written several times (creation, turns, a completion), each
\* holding the 24-hour expiry
WrittenWithExpiry ==
  /\ diagVer >= 3 /\ diagStore # None /\ diagStore[1].isComplete
  /\ diagTtl = Some(86400)
  /\ teamVer >= 2 /\ teamStore # None /\ teamTtl = Some(86400)

\* C9: when two requests for the same session read the same stored state and
\* each appends its own turn, the state stored after both finished is the last
\* writer's and lacks the turn appended by the other, and no later stored state
\* holds both turns; on the team endpoint and on the diagnostic endpoint.
LostUpdate ==
  /\ LostIn("diag", diagStore, diagVer)
  /\ LostIn("team", teamStore, teamVer)
  /\ NeverBoth("diag", diagStore)
  /\ NeverBoth("team", teamStore)

\* two acknowledged turns whose requests read the same existing stored state,
\* of which the store holds one only
LostOn(kind, store) ==
  \E r, s \in acked :
    /\ SameRead(kind, r, s) /\ r.readVer > 0
    /\ store # None
    /\ ~HasTurn(store[1], r.rid) /\ HasTurn(store[1], s.rid)

\* two overlapping diagnostic requests read the same stored state, both were
\* answered with 200 and the stored session is the later writer's, after the
\* same happened to the team session
LostTurns ==
  /\ \E a, b \in Workers :
       /\ Overlapped("diag", a, b, diagVer)
       /\ resp[a] # None /\ resp[a][1].status = 200
       /\ resp[b] # None /\ resp[b][1].status = 200
       /\ diagStore = loc[b]
  /\ LostOn("diag", diagStore)
  /\ LostOn("team", teamStore)

\* C10: for every message for which some persona's keyword score is 2 or more,
\* smartRoute returns the persona chosen by routeByKeywords and makes no call
\* to the completion service.
HighScoreRoutesByKeywords ==
  (route # None /\ \E a \in AgentIds : MatchCount(route[1].message, a) >= 2) =>
     /\ route[1].agent = routeByKeywords(route[1].message)
     /\ ~route[1].called

\* with a completion client configured, a message scoring 2 (and no more) for
\* a persona was routed
HighScoreRouted ==
  /\ route # None
  /\ hasKey
  /\ SmartRouteMaxScore(route[1].message) = 2
  /\ route[1].agent = routeByKeywords(route[1].message)
  /\ routeCalls > 0

\* the reply of the routing call names a persona (after toLowerCase and trim)
Recognised(outcome) ==
  /\ outcome.kind = "text"
  /\ \E a \in AgentIds : trim(toLowerCase(outcome.text)) = AgentName(a)

\* C11: when the maximum keyword score is below 2 and there is no client, the
\* routing call throws, or its reply is not one of the three persona ids,
\* smartRoute returns the persona routeByKeywords returns for the message.
RouterFallsBackToKeywords ==
  ( /\ route # None
    /\ SmartRouteMaxScore(route[1].message) < 2
    /\ (~hasKey \/ route[1].outcome.kind = "throw" \/ ~Recognised(route[1].outcome)) )
  => route[1].agent = routeByKeywords(route[1].message)

\* two or more personas share the maximum keyword score of the message
TiedForMaximum(message) ==
  Cardinality({a \in AgentIds : MatchCount(message, a) = SmartRouteMaxScore(message)}) >= 2

\* C12: routeByKeywords returns a persona whose keyword score is maximal, and
\* whenever two or more personas tie for the maximum it returns 'lea'.
KeywordTieGoesToDefault ==
  route # None =>
    /\ MatchCount(route[1].message, route[1].keywordResult)
         = SmartRouteMaxScore(route[1].message)
    /\ TiedForMaximum(route[1].message) => route[1].keywordResult = "lea"

BestRedirectScore(message) == Max({RedirectScore(message, a) : a \in AgentIds})

\* C13: shouldRedirect returns a persona other than current exactly when the
\* highest redirect score belongs to another persona, is at least 1 and is
\* strictly greater than current's score; when the best challenger's score
\* equals current's score it returns null.
RedirectOnlyWhenStrictlyBetter ==
  redirect # None =>
    LET r == redirect[1]
        best == BestRedirectScore(r.message)
        currentScore == RedirectScore(r.message, r.currentAgent)
    IN /\ r.result # None <=> (best >= 1 /\ best > currentScore)
       /\ r.result # None =>
            /\ r.result[1] # r.currentAgent
            /\ RedirectScore(r.message, r.result[1]) = best
       /\ best = currentScore => r.result = None

\* a challenger ties with the current persona on a positive score and
\* shouldRedirect returned null
RedirectTieKeepsCurrent ==
  /\ redirect # None
  /\ redirect[1].result = None
  /\ BestRedirectScore(redirect[1].message) >= 1
  /\ \E a \in AgentIds \ {redirect[1].currentAgent} :
       /\ RedirectScore(redirect[1].message, a) = BestRedirectScore(redirect[1].message)
       /\ RedirectScore(redirect[1].message, a)
            = RedirectScore(redirect[1].message, redirect[1].currentAgent)

(***************************************************************************)
(* Properties of the team chat endpoint.                                   *)
(***************************************************************************)
\* handler w takes the branch of the stored session in this step
ServesStored(w) ==
  /\ pc[w] = "t_get" /\ pc'[w] # "t_get"
  /\ teamStore # None
  /\ ~req'[w].isNew

\* C14: on a request to an existing team session the redirector changes the
\* persona only when the challenger's redirect score is at least 1 and strictly
\* greater than the score of the session's stored currentAgent, also when the
\* request names another explicit persona or 'auto'.
RedirectAgainstStored ==
  [][\A w \in Workers :
       ServesStored(w) =>
         LET stored == teamStore[1].currentAgent
             requested == req[w].target
             final == req'[w].target
             message == req[w].message
         IN (final # requested /\ final # stored) =>
              /\ RedirectScore(message, final) >= 1
              /\ RedirectScore(message, final) > RedirectScore(message, stored)]_vars

AssistantTurns(state) ==
  {i \in DOMAIN state.messages : state.messages[i].role = "assistant"}

\* C15: in every stored team-session state currentAgent equals the agent tag
\* of the most recent assistant message.
CurrentAgentIsLastTag ==
  teamStore # None =>
    /\ AssistantTurns(teamStore[1]) # {}
    /\ teamStore[1].messages[Max(AssistantTurns(teamStore[1]))].agent
         = teamStore[1].currentAgent

\* a stored session that was handed from one persona to another, the last
\* request having changed the persona
SwitchedSessionStored ==
  /\ teamStore # None
  /\ \E i, j \in AssistantTurns(teamStore[1]) :
       teamStore[1].messages[i].agent # teamStore[1].messages[j].agent
  /\ \E w \in Workers :
       /\ pc[w] = "done" /\ resp[w] # None /\ resp[w][1].status = 200
       /\ req[w].changed
       /\ teamStore = loc[w]

\* handler w takes the branch of the absent session in this step
ServesNew(w) ==
  /\ pc[w] = "t_get" /\ pc'[w] # "t_get"
  /\ req'[w].isNew

\* C16: when a request creates a new team session and its message is a
\* substantive (non-greeting) question, the user's message is appended and
\* answered by the resolved persona within that same request, for an explicitly
\* selected persona as well as for auto mode.
SubstantiveQuestionAnswered ==
  [][\A w \in Workers :
       (ServesNew(w) /\ ~isGreeting(req[w].message)) =>
         /\ pc'[w] = "t_claude"
         /\ HasTurn(loc'[w][1], req[w].rid)]_vars

BONJOUR == <<"B","o","n","j","o","u","r">>

\* handler w answered 200 to a request in auto mode that found no session and
\* whose message is "Bonjour"
BonjourOnNewSession(w) ==
  /\ pc[w] = "done" /\ resp[w] # None /\ resp[w][1].status = 200
  /\ req[w].kind = "team" /\ req[w].isNew /\ req[w].agent = "auto"
  /\ req[w].message = BONJOUR

\* C17: for a new session in auto mode whose message is "Bonjour", the response
\* is the greeting of the default strategy persona, the stored session contains
\* only that greeting message, and the user's message is neither appended nor
\* answered.
BonjourGetsDefaultGreeting ==
  \A w \in Workers :
    BonjourOnNewSession(w) =>
      LET greeting == IF req[w].returning THEN ReturningGreeting("lea")
                      ELSE AgentGreeting("lea")
      IN /\ resp[w][1].agent = "lea"
         /\ resp[w][1].isGreeting
         /\ resp[w][1].message = greeting
         /\ loc[w][1].messages = <<TeamAssistantMsg(greeting, "lea")>>
         /\ hasRedis => teamStore = loc[w]

\* C18: a message made only of a token of the greeting/closing list (hello-type
\* greetings and closings such as merci and ok, in any case) on a new auto-mode
\* session is treated as greeting-only: it gets the greeting and no answer of
\* the completion service.
ClosingTokensAreGreetings ==
  [][\A w \in Workers :
       (ServesNew(w) /\ req[w].agent = "auto" /\ isGreeting(req[w].message)) =>
         /\ pc'[w] = "t_save"
         /\ Len(loc'[w][1].messages) = 1]_vars

\* state holds a user message with an empty content
HasEmptyTurn(state) ==
  \E i \in DOMAIN state.messages :
    state.messages[i].role = "user" /\ state.messages[i].content = <<>>

\* a rejected request carries field-level detail and has read no session state
RejectedWithDetail ==
  \A w \in Workers :
    (resp[w] # None /\ resp[w][1].status = 400) =>
       (resp[w][1].fields # {} /\ loc[w] = None)

\* C19: a request with a malformed session id, an unknown persona selector or a
\* message that is too long or empty is rejected with field-level detail before
\* any session state is read or written; a message that is empty after trimming
\* and sanitization is never appended to a session.
EmptyMessageNeverAppended ==
  /\ RejectedWithDetail
  /\ teamStore # None => ~HasEmptyTurn(teamStore[1])
  /\ \A w \in Workers : loc[w] # None => ~HasEmptyTurn(loc[w][1])

\* p occurs in s, ignoring case
ContainsCI(s, p) == \E i \in 1..(Len(s) - Len(p) + 1) : MatchAtCI(s, p, i)

\* s holds an angle-bar role marker: an opening bar and a later closing bar
ContainsAngleMarker(s) ==
  \E i \in 1..Len(s), j \in 1..Len(s) :
    j >= i + 2 /\ MatchAt(s, <<"<", "|">>, i) /\ MatchAt(s, <<"|", ">">>, j)

\* C20: the text returned by the interview endpoint's sanitizeInput contains no
\* occurrence of the completion sentinel and no role marker, also for inputs
\* where one marker is nested inside or split by another.
SanitizedHasNoMarker ==
  sanitized # None =>
    /\ ~ContainsCI(sanitized[1].output, SENTINEL)
    /\ ~ContainsCI(sanitized[1].output, SYSTEM_MARK)
    /\ ~ContainsCI(sanitized[1].output, ASSISTANT_MARK)
    /\ ~ContainsAngleMarker(sanitized[1].output)

(***************************************************************************)
(* The lazily initialised completion-service client (getAnthropic of       *)
(* src/api/team/chat.ts and src/unnamed/part_006): callers of one process  *)
(* overlap at the awaited dynamic import.                                  *)
(***************************************************************************)
\* the value null returned to a caller
NullClient == 0

\* the frame of a getAnthropic step
ClientFrame ==
  UNCHANGED << hasKey, hasRedis, budget, handlers, reportVars, issued, diagVars, teamVars, req,
               loc, resp, claudeCalls, scoreCalls, routerVars, acked >>

\* getAnthropic up to its await: the cached handle, null without a key, or
\* suspension at the dynamic import
getAnthropic(w) ==
  /\ w \in handlers
  /\ pc[w] \in {"idle", "done"}
  /\ nreq < budget
  /\ nreq' = nreq + 1
  /\ IF anthropic # None
     THEN /\ got' = [got EXCEPT ![w] = Some(anthropic[1])]
          /\ pc' = [pc EXCEPT ![w] = "done"]
     ELSE IF ~hasKey
     THEN /\ got' = [got EXCEPT ![w] = Some(NullClient)]
          /\ pc' = [pc EXCEPT ![w] = "done"]
     ELSE /\ got' = [got EXCEPT ![w] = None]
          /\ pc' = [pc EXCEPT ![w] = "a_import"]
  /\ UNCHANGED << anthropic, constructed, faults >>
  /\ ClientFrame

\* getAnthropic after the import resolved: the client is constructed, assigned
\* to the module variable and returned; a rejected import returns null
getAnthropicImported(w) ==
  /\ pc[w] = "a_import"
  /\ \/ /\ constructed' = constructed + 1
        /\ anthropic' = Some(constructed + 1)
        /\ got' = [got EXCEPT ![w] = Some(constructed + 1)]
        /\ UNCHANGED faults
     \/ /\ faults < MaxFaults
        /\ faults' = faults + 1
        /\ got' = [got EXCEPT ![w] = Some(NullClient)]
        /\ UNCHANGED << anthropic, constructed >>
  /\ pc' = [pc EXCEPT ![w] = "done"]
  /\ UNCHANGED nreq
  /\ ClientFrame

\* two callers of one process, MaxClientCalls calls
InitClient == InitCommon /\ faults = 0 /\ budget = MaxClientCalls /\ handlers = Workers

ClientNext ==
  \/ \E w \in Workers : getAnthropic(w)
  \/ \E w \in Workers : getAnthropicImported(w)

SpecClient == InitClient /\ [][ClientNext]_vars

\* C28: within one process the client is constructed at most once, also when
\* calls overlap before the first construction has finished.
ClientConstructedOnce == constructed <= 1

\* C28, second half: once assigned, the handle is never replaced.
ClientNeverReplaced ==
  [][anthropic # None => anthropic' = anthropic]_vars

\* without overlap: a call that starts while no other call is suspended
ClientConstructedOnceInSequence ==
  [][(\A w \in Workers : pc[w] # "a_import") =>
       (constructed >= 1 => constructed' = constructed)]_vars

(***************************************************************************)
(* Properties of the hand-off between personas (team chat endpoint).       *)
(***************************************************************************)
\* handler w serves the stored session in this step
ServesExisting(w) ==
  /\ pc[w] = "t_get" /\ pc'[w] = "t_claude"
  /\ ~req'[w].isNew /\ teamStore # None

\* handler w writes the session it read from the store in this step
SavesExisting(w) ==
  /\ pc[w] = "t_save" /\ pc'[w] = "done"
  /\ ~req[w].isNew /\ teamStore # None /\ teamVer' # teamVer
  /\ req[w].readVer = teamVer

\* the last message of a list is an assistant message tagged agent
EndsWithAnswerOf(messages, agent) ==
  /\ messages[Len(messages)].role = "assistant"
  /\ messages[Len(messages)].agent = agent

\* C31: when a request changes the persona of an existing team session, one
\* hand-off narration tagged with the new persona is appended before the user
\* message, built without a call of the completion service, and the user
\* message and one answer of the new persona follow (three more messages);
\* when the persona does not change there is no narration (two more messages)
\* and agentChanged is false.
HandOffOnChangeOnly ==
  [][\A w \in Workers :
       /\ ServesExisting(w) =>
            LET old == teamStore[1].messages
                new == loc'[w][1].messages
                n == Len(old)
                changed == req'[w].target # teamStore[1].currentAgent
            IN /\ claudeCalls' = claudeCalls
               /\ req'[w].changed = changed
               /\ SubSeq(new, 1, n) = old
               /\ new[Len(new)] = TeamUserMsg(req[w].message, req[w].rid)
               /\ IF changed
                  THEN /\ Len(new) = n + 2
                       /\ new[n + 1].role = "assistant"
                       /\ new[n + 1].agent = req'[w].target
                       /\ new[n + 1].content = buildSwitchContext(old, req'[w].target)
                  ELSE Len(new) = n + 1
       /\ SavesExisting(w) =>
            LET old == teamStore[1].messages
                new == teamStore'[1].messages
            IN /\ Len(new) = Len(old) + (IF req[w].changed THEN 3 ELSE 2)
               /\ SubSeq(new, 1, Len(old)) = old
               /\ EndsWithAnswerOf(new, req[w].target)
               /\ new[Len(new) - 1].role = "user"
               /\ resp'[w][1].agentChanged = req[w].changed
               /\ resp'[w][1].messageCount = Len(new)]_vars

\* a stored session whose last three messages are a hand-off narration of the
\* new persona, the user message and the answer of the new persona
HandOffStored ==
  /\ teamStore # None
  /\ \E w \in Workers :
       LET m == teamStore[1].messages
           n == Len(m)
       IN /\ pc[w] = "done" /\ resp[w] # None /\ resp[w][1].status = 200
          /\ ~req[w].isNew /\ req[w].changed /\ teamStore = loc[w]
          /\ n >= 4
          /\ m[n - 2].role = "assistant" /\ m[n - 2].agent = req[w].target
          /\ m[n - 1].role = "user"
          /\ EndsWithAnswerOf(m, req[w].target)
          /\ \E i \in 1..(n - 3) : m[i].role = "assistant" /\ m[i].agent # req[w].target

\* the narration says the user was talking with persona a
NamesAgent(content, a) ==
  includes(content, <<"a","v","e","c"," ">> \o AgentDisplayName(a) \o <<".">>)

\* handler w hands the stored session to another persona in this step
HandsOver(w) ==
  /\ ServesExisting(w)
  /\ req'[w].target # teamStore[1].currentAgent

\* the narration appended by a hand-over step
Narration(w) == loc'[w][1].messages[Len(teamStore[1].messages) + 1].content

\* C32: the hand-off narration names the persona that was the session's
\* currentAgent immediately before the switch (the history always holds a
\* message tagged with it), also after several earlier switches.
NarrationNamesPrevious ==
  [][\A w \in Workers :
       HandsOver(w) => NamesAgent(Narration(w), teamStore[1].currentAgent)]_vars

\* the same for the sessions that hold more than the opening greeting
NarrationNamesPreviousAfterTurns ==
  [][\A w \in Workers :
       (HandsOver(w) /\ Len(teamStore[1].messages) >= 2)
         => NamesAgent(Narration(w), teamStore[1].currentAgent)]_vars

\* the same for the first hand-over of a session that holds more than the
\* opening greeting: every tagged message carries the previous persona
FirstNarrationNamesPrevious ==
  [][\A w \in Workers :
       ( /\ HandsOver(w) /\ Len(teamStore[1].messages) >= 2
         /\ \A i \in AssistantTurns(teamStore[1]) :
              teamStore[1].messages[i].agent = teamStore[1].currentAgent )
         => NamesAgent(Narration(w), teamStore[1].currentAgent)]_vars

(***************************************************************************)
(* Further properties of the interview endpoint.                           *)
(***************************************************************************)
\* C33: no assistant message stored in a diagnostic session or returned by the
\* interview endpoint contains the completion sentinel, whatever the reply of
\* the completion service, also when it holds the sentinel more than once.
NoSentinelInAssistantText ==
  /\ diagStore # None =>
       \A i \in DOMAIN Stored.messages :
         Stored.messages[i].role = "assistant" => ~includes(Stored.messages[i].content, SENTINEL)
  /\ \A w \in Workers :
       (resp[w] # None /\ req[w].kind = "diag" /\ Has(resp[w][1], "message"))
         => ~includes(resp[w][1].message, SENTINEL)

\* the same for the replies that hold the sentinel at most once
NoSentinelAfterSingleSentinelReply ==
  /\ diagStore # None =>
       \A i \in DOMAIN Stored.messages :
         Stored.messages[i].role = "assistant" =>
           ( ~includes(Stored.messages[i].content, SENTINEL)
             \/ Stored.messages[i].content = trim(<<" ","x"," ">> \o SENTINEL) )
  /\ \A w \in Workers :
       (resp[w] # None /\ req[w].kind = "diag" /\ Has(resp[w][1], "message"))
         => ( ~includes(resp[w][1].message, SENTINEL)
              \/ resp[w][1].message = trim(<<" ","x"," ">> \o SENTINEL) )

(***************************************************************************)
(* Properties of both endpoints: histories only grow.                      *)
(***************************************************************************)
IsPrefix(s, t) == Len(s) <= Len(t) /\ SubSeq(t, 1, Len(s)) = s

\* the stored session of the endpoint a request addresses
StoreOf(kind) == IF kind = "diag" THEN diagStore ELSE teamStore

\* handler w finds a stored session in this step
FindsExisting(w) ==
  /\ \/ pc[w] = "d_get" /\ diagStore # None /\ req[w].kind = "diag"
     \/ pc[w] = "t_get" /\ teamStore # None /\ req[w].kind = "team" /\ ~req'[w].isNew
  /\ pc'[w] # pc[w] /\ loc'[w] # None

\* handler w goes on with the request it is serving in this step
GoesOn(w) ==
  /\ loc[w] # None /\ loc'[w] # None
  /\ req'[w].rid = req[w].rid /\ ~req[w].isNew /\ ~req'[w].isNew

\* C34: for every request that finds a session in the store, the history it
\* saves has the history it found as a prefix: the local copy starts from the
\* stored history, every step keeps what the copy holds as a prefix, and what
\* is written is the copy; a write over the very state that was read extends
\* the stored history.
HistoryOnlyGrows ==
  [][\A w \in Workers :
       /\ FindsExisting(w) =>
            IsPrefix(StoreOf(req[w].kind)[1].messages, loc'[w][1].messages)
       /\ GoesOn(w) => IsPrefix(loc[w][1].messages, loc'[w][1].messages)
       /\ (pc[w] = "d_save" /\ pc'[w] = "done" /\ diagVer' # diagVer) => diagStore' = loc[w]
       /\ (pc[w] = "t_save" /\ pc'[w] = "done" /\ teamVer' # teamVer) => teamStore' = loc[w]
       /\ (pc[w] = "d_save" /\ pc'[w] = "done" /\ diagVer' # diagVer /\ diagStore # None
             /\ req[w].readVer = diagVer)
            => IsPrefix(diagStore[1].messages, diagStore'[1].messages)
       /\ (pc[w] = "t_save" /\ pc'[w] = "done" /\ teamVer' # teamVer /\ teamStore # None /\ ~req[w].isNew
             /\ req[w].readVer = teamVer)
            => IsPrefix(teamStore[1].messages, teamStore'[1].messages)]_vars

\* both a diagnostic session and a team session saved by a request that had
\* found them in the store, each holding more than it held when found
GrownHistoriesStored ==
  \E v, w \in Workers :
    /\ req[v].kind = "diag" /\ pc[v] = "done" /\ req[v].readVer >= 1
    /\ req[v].savedVer = diagVer /\ diagStore = loc[v] /\ Len(Stored.messages) >= 3
    /\ req[w].kind = "team" /\ pc[w] = "done" /\ req[w].readVer >= 1 /\ ~req[w].isNew
    /\ req[w].savedVer = teamVer /\ teamStore = loc[w]
    /\ Len(teamStore[1].messages) >= 4

\* C34 read against the store: every write by a request that had found the
\* session extends the history stored immediately before the write.
StoredHistoryOnlyGrows ==
  [][\A w \in Workers :
       /\ (pc[w] = "d_save" /\ pc'[w] = "done" /\ diagVer' # diagVer /\ diagStore # None)
            => IsPrefix(diagStore[1].messages, diagStore'[1].messages)
       /\ (pc[w] = "t_save" /\ pc'[w] = "done" /\ teamVer' # teamVer /\ teamStore # None
             /\ ~req[w].isNew)
            => IsPrefix(teamStore[1].messages, teamStore'[1].messages)]_vars

(***************************************************************************)
(* Further properties of the team chat endpoint.                           *)
(***************************************************************************)
\* the message matches no keyword of the routing and redirect taxonomies
MatchesNoKeyword(message) ==
  /\ \A a \in AgentIds : MatchCount(message, a) = 0
  /\ \A a \in AgentIds : RedirectScore(message, a) = 0

\* C35: in auto mode on an existing team session a message that matches no
\* keyword leaves the persona unchanged and appends no hand-off narration,
\* whatever the current persona and with or without the completion service.
NoKeywordKeepsPersona ==
  [][\A w \in Workers :
       (ServesExisting(w) /\ req[w].auto /\ MatchesNoKeyword(req[w].message))
         => /\ ~req'[w].changed
            /\ loc'[w][1].currentAgent = teamStore[1].currentAgent
            /\ Len(loc'[w][1].messages) = Len(teamStore[1].messages) + 1]_vars

\* the same without a completion-service client
NoKeywordKeepsPersonaWithoutClient ==
  [][\A w \in Workers :
       (ServesExisting(w) /\ req[w].auto /\ MatchesNoKeyword(req[w].message) /\ ~hasKey)
         => ~req'[w].changed]_vars

\* the same for the sessions currently held by the default persona, without a
\* completion-service client
NoKeywordKeepsDefaultPersona ==
  [][\A w \in Workers :
       ( /\ ServesExisting(w) /\ req[w].auto /\ MatchesNoKeyword(req[w].message)
         /\ ~hasKey /\ teamStore[1].currentAgent = "lea" )
         => ~req'[w].changed]_vars

\* C36: a team-chat request never writes a freshly initialised history over a
\* session that exists in the store: a failed read of the store is not taken
\* for an absent session.
FreshSessionNeverOverwrites ==
  [][\A w \in Workers :
       (pc[w] = "t_save" /\ pc'[w] = "done" /\ teamVer' # teamVer /\ req[w].isNew)
         => teamStore = None]_vars

\* the same as long as no read of the store fails
FreshSessionNeverOverwritesWithoutFault ==
  [][\A w \in Workers :
       ( /\ pc[w] = "t_save" /\ pc'[w] = "done" /\ teamVer' # teamVer /\ req[w].isNew
         /\ faults = 0 )
         => teamStore = None]_vars

\* C37: every stored diagnostic session carries the firstName, email and sector
\* captured at start: the chat handler creates no session for an id that has
\* no stored state.
StoredSessionWasStarted ==
  diagStore # None =>
    /\ Has(Stored, "email") /\ Has(Stored, "sector")
    /\ Stored.firstName = StartState(<<"A","n","a">>).firstName
    /\ Stored.firstName # VISITEUR

\* C38: without a session store every interview chat request is served from a
\* freshly initialised session and nothing is stored, so every response of a
\* turn reports questionCount = 2 and, with the built-in scripted replies, no
\* request is ever answered with isComplete=true.
StorelessSessionsReset ==
  ~hasRedis =>
    /\ diagStore = None
    /\ \A w \in Workers :
         /\ (loc[w] # None /\ req[w].kind = "diag") =>
              /\ SubSeq(loc[w][1].messages, 1, 2)
                   = PushUser(initConversationDiag(VISITEUR), req[w].message, req[w].rid).messages
              /\ loc[w][1].questionCount <= 2
         /\ (resp[w] # None /\ req[w].kind = "diag" /\ resp[w][1].status = 200) =>
              /\ resp[w][1].questionCount = 2
              /\ ~hasKey => ~resp[w][1].isComplete

\* the last request the run may issue, answered like the first: questionCount 2,
\* not complete, scripted replies, no store
StillSecondQuestion ==
  /\ ~hasRedis /\ ~hasKey /\ nreq = budget
  /\ \E w \in Workers :
       /\ pc[w] = "done" /\ resp[w] # None /\ resp[w][1].status = 200
       /\ req[w].rid = budget
       /\ resp[w][1].questionCount = 2 /\ ~resp[w][1].isComplete
       /\ resp[w][1].message = Scripted(VISITEUR, 2)

(***************************************************************************)
(* The report endpoint (src/unnamed/part_006, handler of the report).      *)
(***************************************************************************)
NotFound == [status |-> 404, code |-> "SESSION_NOT_FOUND"]
Incomplete == [status |-> 400, code |-> "DIAGNOSTIC_INCOMPLETE"]

Respond(w, r) ==
  /\ resp' = [resp EXCEPT ![w] = Some(r)]
  /\ pc' = [pc EXCEPT ![w] = "done"]

ReportFrame ==
  UNCHANGED << hasKey, hasRedis, budget, handlers, clientVars, issued, diagVars, teamVars,
               claudeCalls, scoreCalls, routerVars, acked >>

\* reportSchema.parse of a valid body
ReportReceive(w, sendEmail) ==
  /\ w \in handlers
  /\ pc[w] \in {"idle", "done"}
  /\ nreq < budget
  /\ nreq' = nreq + 1
  /\ req' = [req EXCEPT ![w] = [NoReq EXCEPT !.kind = "report", !.rid = nreq + 1,
                                       !.sendEmail = sendEmail]]
  /\ pc' = [pc EXCEPT ![w] = "r_get"]
  /\ loc' = [loc EXCEPT ![w] = None]
  /\ resp' = [resp EXCEPT ![w] = None]
  /\ UNCHANGED << faults, pdfs, emails >>
  /\ ReportFrame

\* guards that test only that a state was found
ReportGuardsFoundOnly(w, state) ==
  IF state = None
  THEN Respond(w, NotFound) /\ UNCHANGED loc
  ELSE /\ loc' = [loc EXCEPT ![w] = state]
       /\ pc' = [pc EXCEPT ![w] = "r_pdf"]
       /\ UNCHANGED resp

\* the two guards of the report handler on the state getConversation returned
ReportGuards(w, state) ==
  IF state = None
  THEN Respond(w, NotFound) /\ UNCHANGED loc
  ELSE IF ~state[1].isComplete \/ ~Has(state[1], "scores")
  THEN Respond(w, Incomplete) /\ loc' = [loc EXCEPT ![w] = state]
  ELSE /\ loc' = [loc EXCEPT ![w] = state]
       /\ pc' = [pc EXCEPT ![w] = "r_pdf"]
       /\ UNCHANGED resp

\* getConversation of the report: null without Redis, when the key is absent
\* and when the Redis get throws
ReportGet(w) ==
  /\ pc[w] = "r_get"
  /\ \/ /\ ReportGuards(w, IF hasRedis THEN diagStore ELSE None)
        /\ UNCHANGED faults
     \/ /\ hasRedis /\ faults < MaxFaults
        /\ faults' = faults + 1
        /\ ReportGuards(w, None)
  /\ UNCHANGED << nreq, req, pdfs, emails >>
  /\ ReportFrame

\* generatePDF: the buffer, or a thrown error answered 500
ReportPdf(w) ==
  /\ pc[w] = "r_pdf"
  /\ pdfs' = pdfs \cup {req[w].rid}
  /\ \/ /\ IF req[w].sendEmail
           THEN pc' = [pc EXCEPT ![w] = "r_mail"] /\ UNCHANGED resp
           ELSE Respond(w, [status |-> 200, emailSent |-> FALSE, pdf |-> TRUE])
        /\ UNCHANGED faults
     \/ /\ faults < MaxFaults
        /\ faults' = faults + 1
        /\ Fail(w, "pdf")
  /\ UNCHANGED << nreq, req, loc, emails >>
  /\ ReportFrame

\* sendReportEmail (true when sent or when no mail client is configured, false
\* when the send throws), updateNotionStatus and the 200 response
ReportEmail(w) ==
  /\ pc[w] = "r_mail"
  /\ emails' = emails \cup {req[w].rid}
  /\ \E emailSent \in BOOLEAN :
       Respond(w, [status |-> 200, emailSent |-> emailSent, pdf |-> TRUE])
  /\ UNCHANGED << nreq, req, loc, faults, pdfs >>
  /\ ReportFrame

ReportReplies == { <<"Q"," ","?">>, <<"F","i","n","\n">> \o SENTINEL }

\* scoring replies with and without a scores member
ReportScorings == {1, 5}

\* one handler instance serving chat and report requests of one session
InitReport == InitCommon /\ faults = 0 /\ budget = MaxReportRequests /\ handlers = {"h1"}

ReportNext ==
  \/ DiagNextOn(ReportReplies, ReportScorings)
  \/ \E w \in Workers, sendEmail \in BOOLEAN : ReportReceive(w, sendEmail)
  \/ \E w \in Workers : ReportGet(w)
  \/ \E w \in Workers : ReportPdf(w)
  \/ \E w \in Workers : ReportEmail(w)

SpecReport == InitReport /\ [][ReportNext]_vars

\* the stored session can be reported on
Reportable == hasRedis /\ diagStore # None /\ Stored.isComplete /\ Has(Stored, "scores")

\* C39: the report endpoint generates the PDF and sends the email only for a
\* stored session that is complete and has scores; a missing session is
\* answered 404 SESSION_NOT_FOUND, an incomplete one or one without scores 400
\* DIAGNOSTIC_INCOMPLETE, and in both cases no PDF is generated and no email
\* is sent.
ReportOnlyWhenComplete ==
  /\ [](\A w \in Workers :
          (req[w].kind = "report" /\ resp[w] # None /\ resp[w][1].status \in {400, 404})
            => req[w].rid \notin pdfs \cup emails)
  /\ [][ /\ (pdfs' # pdfs \/ emails' # emails) => Reportable
         /\ \A w \in Workers :
              (pc[w] = "r_get" /\ pc'[w] # "r_get" /\ faults' = faults) =>
                 /\ (~hasRedis \/ diagStore = None) => (pc'[w] = "done" /\ resp'[w] = Some(NotFound))
                 /\ (hasRedis /\ diagStore # None /\ ~Reportable)
                      => (pc'[w] = "done" /\ resp'[w] = Some(Incomplete))
                 /\ Reportable => (pc'[w] = "r_pdf" /\ loc'[w] = diagStore) ]_vars

\* the third request is a report on a complete session with scores: its PDF was
\* generated and its email sent
ReportSentAfterRefusal ==
  /\ Reportable
  /\ \E w \in Workers :
       /\ req[w].kind = "report" /\ pc[w] = "done" /\ resp[w] # None
       /\ resp[w][1].status = 200 /\ resp[w][1].emailSent
       /\ req[w].rid = 3 /\ pdfs = {3} /\ emails = {3}

(***************************************************************************)
(* The sanitizers applied to their own output.                             *)
(***************************************************************************)
\* C40: sanitizeInput is idempotent: for every input, applying it twice gives
\* the same text as applying it once, for the team-chat variant and for the
\* interview variant.
SanitizeInputIdempotent ==
  sanitized # None =>
    /\ sanitizeInputDiag(sanitized[1].output) = sanitized[1].output
    /\ LET once == sanitizeInputTeam(trim(sanitized[1].input))
       IN  sanitizeInputTeam(once) = once

\* the interview variant alone applied to its own output
SanitizeInputDiagIdempotent ==
  sanitized # None => sanitizeInputDiag(sanitized[1].output) = sanitized[1].output

\* the team-chat variant alone applied to its own output
SanitizeInputTeamIdempotent ==
  sanitized # None =>
    LET once == sanitizeInputTeam(trim(sanitized[1].input))
    IN  sanitizeInputTeam(once) = once

====
